---- MODULE Spec2Model ----
(***************************************************************************)
(* Model of the progress-submission engine of Rosttatime:                  *)
(*   - the remote query layer and the request-forgery strategy of          *)
(*     addProgress.ts (getCoursesAndProgress, getSequence,                 *)
(*     addProgressForActivity), as operators over the answers the          *)
(*     environment gives (session storage, tab lookup, in-page execution,  *)
(*     the GraphQL endpoint);                                              *)
(*   - the batch handler handleProcessSelected of TimeForm.tsx, as a state *)
(*     machine whose steps are the stretches of code between two awaits.   *)
(***************************************************************************)
EXTENDS Integers, Sequences, FiniteSets, TLC

VARIABLES
  sequences,   \* TimeForm state: the SequenceItem list
  processing,  \* TimeForm state: the processing flag
  error,       \* TimeForm state: the error message ("" is null)
  result,      \* TimeForm state: the report, a sequence of lines
  hps,         \* handleProcessSelected: its position and local variables
  obs,         \* history: the calls handleProcessSelected has issued
  api,         \* the last call made directly on the remote query layer
  uuids,       \* the number of calls of generateUUID made so far
  sent,        \* the attempt ids sent by the earlier submissions, one set each
  loading,     \* TimeForm state: the loading flag
  reported,    \* the errors passed to the onError collaborator
  hls,         \* handleLoadSequences: its position and local variables
  pap,         \* processAllProgress: its position, local variables and calls
  ui           \* the selection tree as objects, and the handlers that share them

submitVars == <<uuids, sent>>
loadVars == <<loading, reported, hls>>

vars == <<sequences, processing, error, result, hps, obs, api, submitVars, loadVars, pap, ui>>

(***************************************************************************)
(* Bounds of the model.                                                    *)
(***************************************************************************)
MaxSeqs == 2     \* sequences in the operator's list
MaxActs == 2     \* activities of a sequence
MaxSteps == 2    \* steps of an activity
MaxMsgs == 2     \* messages of the captured request
MaxSubmits == 2  \* submissions made one after the other
MaxCourses == 2  \* assigned courses
MaxLoads == 2    \* loads of the sequence list
MaxTitle == 4    \* characters of a title given to titleToSlug
MaxUiActions == 2  \* operator actions on the selection tree

(***************************************************************************)
(* Generic helpers.                                                        *)
(***************************************************************************)
RECURSIVE SeqsUpTo(_, _)
SeqsUpTo(S, n) ==
  IF n = 0 THEN {<<>>}
  ELSE LET shorter == SeqsUpTo(S, n - 1)
       IN  shorter \cup {Append(s, x) : s \in {t \in shorter : Len(t) = n - 1}, x \in S}

(***************************************************************************)
(* Outcome of a call: it returns a value or it raises.                     *)
(***************************************************************************)
NoValue == [kind |-> "undefined"]

Return(v, reqs) == [raised |-> FALSE, error |-> "", value |-> v, requests |-> reqs]
Raise(e, reqs) == [raised |-> TRUE, error |-> e, value |-> NoValue, requests |-> reqs]

(***************************************************************************)
(* The GraphQL endpoint as the code sees it: fetch() rejects, or resolves  *)
(* with a status and a body; res.ok is status in 200..299.                 *)
(***************************************************************************)
YOUR_AUTH_TOKEN == "b4e31b36"

ResOk(status) == status >= 200 /\ status <= 299

Statuses == {200, 500}

\* what data.errors holds: nothing, an empty array (truthy), a non-empty array
ErrorsKinds == {"absent", "empty", "list"}

\* the answers to a direct POST; only a 2xx JSON body without errors is read
\* further, so only that one carries data
Responses(Data) ==
  {[kind |-> "reject", status |-> 0, json |-> FALSE, errors |-> "absent", data |-> NoValue]}
  \cup [kind : {"http"}, status : Statuses, json : {FALSE}, errors : {"absent"}, data : {NoValue}]
  \cup [kind : {"http"}, status : Statuses, json : {TRUE}, errors : ErrorsKinds \ {"absent"},
        data : {NoValue}]
  \cup [kind : {"http"}, status : {st \in Statuses : ~ResOk(st)}, json : {TRUE},
        errors : {"absent"}, data : {NoValue}]
  \cup [kind : {"http"}, status : {st \in Statuses : ResOk(st)}, json : {TRUE},
        errors : {"absent"}, data : Data]

\* A response is a remote failure when its status is not 2xx or its body
\* carries an errors array.
RemoteFailure(resp) ==
  resp.kind = "http" /\ (~ResOk(resp.status) \/ (resp.json /\ resp.errors # "absent"))

\* the tail shared by the three direct POSTs: !res.ok, res.json(), data.errors
HandleResponse(resp, reqs) ==
  IF resp.kind = "reject" THEN Raise("network", reqs)
  ELSE IF ~ResOk(resp.status) THEN Raise("http", reqs)
  ELSE IF ~resp.json THEN Raise("json", reqs)
  ELSE IF resp.errors # "absent" THEN Raise("graphql", reqs)
  ELSE Return(resp.data, reqs)

DirectRequest(op, variables) ==
  [via |-> "direct", operationName |-> op, variables |-> variables]

GetCoursesAndProgress(locale, resp) ==
  IF locale = "" THEN Raise("locale is required", <<>>)
  ELSE IF YOUR_AUTH_TOKEN = "" THEN Raise("Authentication token is missing.", <<>>)
  ELSE HandleResponse(resp, <<DirectRequest("getCoursesAndProgress", [locale |-> locale])>>)

GetSequence(courseId, sequenceSlug, locale, resp) ==
  IF courseId = "" \/ sequenceSlug = <<>> \/ locale = ""
    THEN Raise("courseId, sequenceSlug, and locale are required", <<>>)
  ELSE IF YOUR_AUTH_TOKEN = "" THEN Raise("Authentication token is missing.", <<>>)
  ELSE HandleResponse(resp, <<DirectRequest("getSequence",
         [courseId |-> courseId, sequenceSlug |-> sequenceSlug, locale |-> locale])>>)

(***************************************************************************)
(* The captured request in browser.storage.session, and JSON texts.  A     *)
(* text either decodes to a value or makes JSON.parse throw.               *)
(***************************************************************************)
JSONParse(body) ==
  IF body.text = "json" THEN [ok |-> TRUE, value |-> body.value]
  ELSE [ok |-> FALSE, value |-> NoValue]

JSONStringify(v) == [text |-> "json", value |-> v]

\* generateUUID: the value of the n-th call of the generator.  A value stands
\* for the call that drew it; two draws of Math.random giving the same 122
\* bits are left out.
UUID(n) == [by |-> "generateUUID", n |-> n]

\* generateUUID as a string: the characters x and y of the template are
\* replaced one by one, each from its own draw r = Math.random() * 16 | 0,
\* a whole number from 0 to Radix - 1
Radix == 16

UUIDTemplate ==
  <<"x", "x", "x", "x", "x", "x", "x", "x", "-", "x", "x", "x", "x", "-",
    "4", "x", "x", "x", "-", "y", "x", "x", "x", "-",
    "x", "x", "x", "x", "x", "x", "x", "x", "x", "x", "x", "x">>

\* v.toString(16)
HexDigits ==
  <<"0", "1", "2", "3", "4", "5", "6", "7", "8", "9", "a", "b", "c", "d", "e", "f">>

ToString16(v) == HexDigits[v + 1]

\* ReplaceChar treating y as x
ReplaceCharPlain(c, r) == ToString16(r)

\* the callback of replace: c === 'x' ? r : (r & 0x3 | 0x8)
ReplaceChar(c, r) ==
  IF c = "x" THEN ToString16(r) ELSE ToString16((r % 4) + 8)

\* template.replace(/[xy]/g, callback), the draws taken in order
RECURSIVE ReplaceXY(_, _)
ReplaceXY(template, draws) ==
  IF template = <<>> THEN <<>>
  ELSE IF Head(template) \in {"x", "y"}
    THEN <<ReplaceChar(Head(template), Head(draws))>>
         \o ReplaceXY(Tail(template), Tail(draws))
    ELSE <<Head(template)>> \o ReplaceXY(Tail(template), draws)

GenerateUUID(draws) == ReplaceXY(UUIDTemplate, draws)

\* the number of draws of one call: the x and y of the template
DrawsOfCall == Len(SelectSeq(UUIDTemplate, LAMBDA c : c \in {"x", "y"}))

\* the sequences of draws followed: draw i is first + i * step modulo Radix,
\* so that every draw takes every value
DrawSequences ==
  {[i \in 1..DrawsOfCall |-> (first + i * step) % Radix] :
     first \in 0..(Radix - 1), step \in 0..(Radix - 1)}

\* an attempt id the page drew itself, found in the captured request
PageUUID(n) == [by |-> "page", n |-> n]

\* the messages of the captured request, as the page sent them
CapturedMsg ==
  [userAgent |-> "page-agent", courseId |-> "c0", sequenceId |-> "q0", version |-> 1,
   activityId |-> "a0", activityAttemptId |-> PageUUID(1), activityStepId |-> "s0",
   activityStepAttemptId |-> PageUUID(2), answers |-> <<"answer">>, score |-> 0,
   skip |-> FALSE, durationMs |-> 1200, endTimestamp |-> "captured"]

CapturedSkipMsg ==
  [userAgent |-> "page-agent", courseId |-> "c0", sequenceId |-> "q0", version |-> 2,
   activityId |-> "a9", activityAttemptId |-> PageUUID(3), activityStepId |-> "s9",
   activityStepAttemptId |-> PageUUID(4), answers |-> <<>>, score |-> 1,
   skip |-> TRUE, durationMs |-> 30, endTimestamp |-> "captured"]

CapturedMsgs == {CapturedMsg, CapturedSkipMsg}

NoMessages == [kind |-> "absent", items |-> <<>>]

BodyValues ==
  {[kind |-> "null", variables |-> "absent", messages |-> NoMessages],
   [kind |-> "prim", variables |-> "absent", messages |-> NoMessages],
   [kind |-> "obj", variables |-> "absent", messages |-> NoMessages],
   [kind |-> "obj", variables |-> "prim", messages |-> NoMessages],
   [kind |-> "obj", variables |-> "obj", messages |-> NoMessages],
   [kind |-> "obj", variables |-> "obj", messages |-> [kind |-> "nonlist", items |-> <<>>]]}
  \cup {[kind |-> "obj", variables |-> "obj", messages |-> [kind |-> "list", items |-> ms]] :
          ms \in SeqsUpTo(CapturedMsgs, MaxMsgs)}

Bodies ==
  {[text |-> t, value |-> NoValue] : t \in {"absent", "empty", "garbage"}}
  \cup {JSONStringify(v) : v \in BodyValues}

\* what storage.session.get gives: it throws, holds nothing, or holds a request
StoreAnswers ==
  {[kind |-> "throws", url |-> "", method |-> "", headers |-> "",
    body |-> [text |-> "absent", value |-> NoValue]],
   [kind |-> "absent", url |-> "", method |-> "", headers |-> "",
    body |-> [text |-> "absent", value |-> NoValue]]}
  \cup {[kind |-> "req", url |-> "https://page/graphql", method |-> "POST",
         headers |-> "captured-headers", body |-> b] :
          b \in Bodies}

\* what scripting.executeScript gives: it throws, gives no result, or gives
\* the {status, ok, text} of the fetch made in the page
ExecAnswers ==
  {[kind |-> "throws", status |-> 0, ok |-> FALSE, json |-> FALSE, errors |-> "absent"],
   [kind |-> "undefined", status |-> 0, ok |-> FALSE, json |-> FALSE, errors |-> "absent"]}
  \cup {[kind |-> "result", status |-> st, ok |-> ResOk(st), json |-> FALSE, errors |-> "absent"] :
          st \in Statuses}
  \cup {[kind |-> "result", status |-> st, ok |-> ResOk(st), json |-> TRUE, errors |-> e] :
          st \in Statuses, e \in ErrorsKinds}

ProgressData == {[kind |-> "progress"]}

\* the answers of the environment to one addProgressForActivity call;
\* uuids is the number of calls of generateUUID made before it
Envs ==
  [store : StoreAnswers, tab : {"ok", "throws"}, exec : ExecAnswers,
   direct : Responses(ProgressData), uuids : {0}]

\* the message built from scratch, after g calls of generateUUID
SyntheticMsg(courseId, sequenceId, activityId, activityStepId, score, g) ==
  [userAgent |-> "navigator-agent", courseId |-> courseId, sequenceId |-> sequenceId,
   version |-> 1, activityId |-> activityId, activityAttemptId |-> UUID(g + 1),
   activityStepId |-> activityStepId, activityStepAttemptId |-> UUID(g + 2),
   answers |-> <<>>, score |-> score, skip |-> FALSE, durationMs |-> 745,
   endTimestamp |-> "now"]

\* RewriteMsgs keeping the attempt ids of the captured messages
RewriteMsgsKeepsAttemptIds(ms, courseId, sequenceId, activityId, activityStepId, score, g) ==
  [i \in 1..Len(ms) |->
     [ms[i] EXCEPT !.courseId = courseId, !.sequenceId = sequenceId,
                   !.activityId = activityId, !.activityStepId = activityStepId,
                   !.score = score, !.endTimestamp = "now"]]

\* RewriteMsgs setting the nominal duration, as createProgressRequest does
RewriteMsgsNominalDuration(ms, courseId, sequenceId, activityId, activityStepId, score, g) ==
  [i \in 1..Len(ms) |->
     [ms[i] EXCEPT !.courseId = courseId, !.sequenceId = sequenceId,
                   !.activityId = activityId, !.activityStepId = activityStepId,
                   !.score = score,
                   !.activityAttemptId = UUID(g + 2 * i - 1),
                   !.activityStepAttemptId = UUID(g + 2 * i),
                   !.endTimestamp = "now", !.durationMs = 745]]

\* bodyObj.variables.messages.map(msg => ({...msg, courseId, ...})), after g
\* calls of generateUUID
RewriteMsgs(ms, courseId, sequenceId, activityId, activityStepId, score, g) ==
  [i \in 1..Len(ms) |->
     [ms[i] EXCEPT !.courseId = courseId, !.sequenceId = sequenceId,
                   !.activityId = activityId, !.activityStepId = activityStepId,
                   !.score = score,
                   !.activityAttemptId = UUID(g + 2 * i - 1),
                   !.activityStepAttemptId = UUID(g + 2 * i),
                   !.endTimestamp = "now"]]

\* browser.storage.session.get('fluency_builder_time_request')
StorageRead == [via |-> "storage", key |-> "fluency_builder_time_request"]

\* The try block of addProgressForActivity.  done: it reached its return;
\* otherwise control leaves the block (no request stored, or an exception
\* that the catch swallows) and the direct POST follows.
ReplayPath(courseId, sequenceId, activityId, activityStepId, score, env) ==
  LET storedReq == env.store
      NotDone(reqs) == [done |-> FALSE, threw |-> FALSE, value |-> NoValue, requests |-> reqs,
                        uuids |-> 0]
      Caught(reqs, n) == [done |-> FALSE, threw |-> TRUE, value |-> NoValue, requests |-> reqs,
                          uuids |-> n]
  IN
  IF storedReq.kind = "throws" THEN Caught(<<StorageRead>>, 0)
  ELSE IF storedReq.kind = "absent" \/ storedReq.body.text \in {"absent", "empty"}
    THEN NotDone(<<StorageRead>>)
  ELSE
    LET parsed == JSONParse(storedReq.body) IN
    IF ~parsed.ok THEN Caught(<<StorageRead>>, 0)
    ELSE
      LET bodyObj == parsed.value IN
      \* null.variables, and an assignment to a property of a primitive, throw
      IF bodyObj.kind # "obj" \/ bodyObj.variables = "prim" THEN Caught(<<StorageRead>>, 0)
      ELSE
        LET msgs ==
              IF bodyObj.messages.kind = "list" /\ Len(bodyObj.messages.items) > 0
                THEN RewriteMsgs(bodyObj.messages.items, courseId, sequenceId,
                                 activityId, activityStepId, score, env.uuids)
                ELSE <<SyntheticMsg(courseId, sequenceId, activityId, activityStepId, score,
                                    env.uuids)>>
            newBody == JSONStringify([kind |-> "obj", variables |-> "obj",
                                      messages |-> [kind |-> "list", items |-> msgs]])
            req == [via |-> "page", url |-> storedReq.url, method |-> storedReq.method,
                    headers |-> storedReq.headers, body |-> newBody]
        IN
        IF env.tab = "throws" THEN Caught(<<StorageRead>>, 2 * Len(msgs))
        ELSE IF env.exec.kind = "throws" THEN Caught(<<StorageRead, req>>, 2 * Len(msgs))
        ELSE [done |-> TRUE, threw |-> FALSE, value |-> env.exec,
              requests |-> <<StorageRead, req>>, uuids |-> 2 * Len(msgs)]

\* the outcome of addProgressForActivity, with the number of calls of
\* generateUUID it made
Generated(out, n) ==
  [raised |-> out.raised, error |-> out.error, value |-> out.value,
   requests |-> out.requests, uuids |-> n]

\* addProgressForActivity without its catch: an exception of the replay
\* path reaches the caller
AddProgressForActivityPropagates(courseId, sequenceId, activityId, activityStepId, score, env) ==
  IF courseId = "" \/ sequenceId = "" \/ activityId = "" \/ activityStepId = ""
    THEN Generated(Raise("courseId, sequenceId, activityId, and activityStepId are required",
                         <<>>), 0)
  ELSE
    LET replay == ReplayPath(courseId, sequenceId, activityId, activityStepId, score, env) IN
    IF replay.done THEN Generated(Return(replay.value, replay.requests), replay.uuids)
    ELSE IF replay.threw THEN Generated(Raise("replay", replay.requests), replay.uuids)
    ELSE Generated(HandleResponse(env.direct, Append(replay.requests,
           DirectRequest("AddProgress",
             [userId |-> "8c1694c1",
              messages |-> <<SyntheticMsg(courseId, sequenceId, activityId, activityStepId,
                                          score, env.uuids + replay.uuids)>>]))),
           replay.uuids + 2)

\* addProgressForActivity with the guard that leaves activityStepId out and
\* comes after the replay path
AddProgressForActivityLateGuard(courseId, sequenceId, activityId, activityStepId, score, env) ==
  LET replay == ReplayPath(courseId, sequenceId, activityId, activityStepId, score, env) IN
  IF replay.done THEN Generated(Return(replay.value, replay.requests), replay.uuids)
  ELSE IF courseId = "" \/ sequenceId = "" \/ activityId = "" \/ activityStepId = ""
    THEN Generated(Raise("courseId, sequenceId, activityId, and activityStepId are required",
                         replay.requests), replay.uuids)
  ELSE Generated(HandleResponse(env.direct, Append(replay.requests,
         DirectRequest("AddProgress",
           [userId |-> "8c1694c1",
            messages |-> <<SyntheticMsg(courseId, sequenceId, activityId, activityStepId,
                                        score, env.uuids + replay.uuids)>>]))),
         replay.uuids + 2)

AddProgressForActivity(courseId, sequenceId, activityId, activityStepId, score, env) ==
  IF courseId = "" \/ sequenceId = "" \/ activityId = "" \/ activityStepId = ""
    THEN Generated(Raise("courseId, sequenceId, activityId, and activityStepId are required",
                         <<>>), 0)
  ELSE IF YOUR_AUTH_TOKEN = "" THEN Generated(Raise("Authentication token is missing.", <<>>), 0)
  ELSE
    LET replay == ReplayPath(courseId, sequenceId, activityId, activityStepId, score, env) IN
    IF replay.done THEN Generated(Return(replay.value, replay.requests), replay.uuids)
    ELSE Generated(HandleResponse(env.direct, Append(replay.requests,
           DirectRequest("AddProgress",
             [userId |-> "8c1694c1",
              messages |-> <<SyntheticMsg(courseId, sequenceId, activityId, activityStepId,
                                          score, env.uuids + replay.uuids)>>]))),
           replay.uuids + 2)

(***************************************************************************)
(* One direct call on the remote query layer: the arguments and the        *)
(* answers of the environment are drawn from small sets, the call is       *)
(* applied, and api keeps the call with its outcome.  The functions keep   *)
(* no state, so one call from the idle state shows all they do.            *)
(***************************************************************************)
Locales == {"", "fr-FR"}
IdValues == {"", "id"}
Slugs == {<<>>, <<"s">>}
Scores == {0, 1}

CoursesData == {[kind |-> "courses"]}
SequenceData == {[kind |-> "sequence"]}

NoEnv == [kind |-> "none"]
ApiIdle == [op |-> "none", args |-> <<>>, env |-> NoEnv, result |-> Return(NoValue, <<>>)]

CallGetCoursesAndProgress ==
  /\ api.op = "none"
  /\ \E locale \in Locales, resp \in Responses(CoursesData) :
       api' = [op |-> "getCoursesAndProgress", args |-> <<locale>>,
               env |-> [direct |-> resp],
               result |-> GetCoursesAndProgress(locale, resp)]
  /\ UNCHANGED <<sequences, processing, error, result, hps, obs, submitVars, loadVars, pap, ui>>

CallGetSequence ==
  /\ api.op = "none"
  /\ \E courseId \in IdValues, slug \in Slugs, locale \in Locales,
        resp \in Responses(SequenceData) :
       api' = [op |-> "getSequence", args |-> <<courseId, slug, locale>>,
               env |-> [direct |-> resp],
               result |-> GetSequence(courseId, slug, locale, resp)]
  /\ UNCHANGED <<sequences, processing, error, result, hps, obs, submitVars, loadVars, pap, ui>>

CallAddProgressForActivity ==
  /\ api.op = "none"
  /\ \E courseId \in IdValues, sequenceId \in IdValues, activityId \in IdValues,
        activityStepId \in IdValues, score \in Scores, env \in Envs :
       api' = [op |-> "addProgressForActivity",
               args |-> <<courseId, sequenceId, activityId, activityStepId, score>>,
               env |-> env,
               result |-> AddProgressForActivity(courseId, sequenceId, activityId,
                                                 activityStepId, score, env)]
  /\ UNCHANGED <<sequences, processing, error, result, hps, obs, submitVars, loadVars, pap, ui>>

(***************************************************************************)
(* titleToSlug.  A string is a sequence of characters; "e'" stands for an  *)
(* e with acute accent, "E'" for its capital and "'" for the combining     *)
(* acute accent U+0301.                                                    *)
(***************************************************************************)
Chars == {"S", "a", "e'", "E'", "1", " ", "-"}

\* String.prototype.toLowerCase
ToLowerCase(s) ==
  [i \in 1..Len(s) |-> CASE s[i] = "S" -> "s" [] s[i] = "E'" -> "e'" [] OTHER -> s[i]]

\* String.prototype.normalize('NFD')
RECURSIVE NormalizeNFD(_)
NormalizeNFD(s) ==
  IF s = <<>> THEN <<>>
  ELSE (CASE Head(s) = "e'" -> <<"e", "'">>
          [] Head(s) = "E'" -> <<"E", "'">>
          [] OTHER -> <<Head(s)>>) \o NormalizeNFD(Tail(s))

IsCombining(c) == c = "'"
IsLowerAlnum(c) == c \in {"a", "e", "s", "1"}

\* .replace(/[\u0300-\u036f]/g, '')
StripCombining(s) == SelectSeq(s, LAMBDA c : ~IsCombining(c))

\* .replace(/[^a-z0-9]+/g, '-')
RECURSIVE DashRuns(_, _)
\* DashRuns with the pattern /[^a-z0-9]/g: one dash for each character
DashRunsEach(s, inRun) ==
  [i \in 1..Len(s) |-> IF IsLowerAlnum(s[i]) THEN s[i] ELSE "-"]

DashRuns(s, inRun) ==
  IF s = <<>> THEN <<>>
  ELSE IF IsLowerAlnum(Head(s)) THEN <<Head(s)>> \o DashRuns(Tail(s), FALSE)
  ELSE IF inRun THEN DashRuns(Tail(s), TRUE)
  ELSE <<"-">> \o DashRuns(Tail(s), TRUE)

\* .replace(/^-|-$/g, '')
TrimDashes(s) ==
  LET t == IF s # <<>> /\ Head(s) = "-" THEN Tail(s) ELSE s
  IN  IF t # <<>> /\ t[Len(t)] = "-" THEN SubSeq(t, 1, Len(t) - 1) ELSE t

TitleToSlug(title) ==
  TrimDashes(DashRuns(StripCombining(NormalizeNFD(ToLowerCase(title))), FALSE))

\* generateUUID() is called
CallGenerateUUID ==
  /\ api.op = "none"
  /\ \E draws \in DrawSequences :
       api' = [op |-> "generateUUID", args |-> <<draws>>, env |-> NoEnv,
               result |-> Return(GenerateUUID(draws), <<>>)]
  /\ UNCHANGED <<sequences, processing, error, result, hps, obs, submitVars, loadVars, pap, ui>>

\* the characters of the strings titleToSlug is applied to: Chars, the
\* letters already in lower case, the combining accent alone, and "_" for
\* another character outside a-z0-9
TitleChars == Chars \cup {"e", "s", "'", "_"}

\* titleToSlug(title) is called, the slug is kept
CallTitleToSlug ==
  /\ api.op = "none"
  /\ \E title \in SeqsUpTo(TitleChars, MaxTitle) :
       api' = [op |-> "titleToSlug", args |-> <<title>>, env |-> NoEnv,
               result |-> Return(TitleToSlug(title), <<>>)]
  /\ UNCHANGED <<sequences, processing, error, result, hps, obs, submitVars, loadVars, pap, ui>>

\* titleToSlug is called on the slug it returned; args keeps the title and
\* the first slug
CallTitleToSlugOnSlug ==
  /\ api.op = "titleToSlug"
  /\ api' = [op |-> "titleToSlug(titleToSlug)",
             args |-> <<api.args[1], api.result.value>>, env |-> NoEnv,
             result |-> Return(TitleToSlug(api.result.value), <<>>)]
  /\ UNCHANGED <<sequences, processing, error, result, hps, obs, submitVars, loadVars, pap, ui>>

(***************************************************************************)
(* The operator's list (TimeForm state) and what getSequence returns.      *)
(***************************************************************************)
AllActivityIds == <<"a1", "a2", "a3", "a4">>
AllStepIds == <<"s1", "s2", "s3", "s4">>
ActivityIds == {AllActivityIds[i] : i \in 1..MaxActs}

\* titles of the sequences of the list; the second one has an empty slug
Titles == {<<"S", "e'", " ", "1">>, <<"-", " ">>}

\* the activities of a SequenceItem: the first n activity ids, each selected or not
UiActivityLists ==
  UNION {[1..n -> {[activityId |-> a, activityType |-> "unknown", selected |-> b] :
                     a \in ActivityIds, b \in BOOLEAN}] : n \in 0..MaxActs} 

SequenceItem(i, title, sel, acts) ==
  [courseId |-> "c1", courseName |-> "Course", sequenceId |-> <<"seq", i>>,
   sequenceTitle |-> title, selected |-> sel, expanded |-> acts # <<>>,
   activities |-> acts, loading |-> FALSE]

SequenceItems(i) ==
  {SequenceItem(i, title, sel, acts) :
     title \in Titles, sel \in BOOLEAN,
     acts \in {l \in UiActivityLists : \A k \in 1..Len(l) : l[k].activityId = AllActivityIds[k]}}

RECURSIVE SequenceListsOfLen(_)
SequenceListsOfLen(n) ==
  IF n = 0 THEN {<<>>}
  ELSE {Append(l, x) : l \in SequenceListsOfLen(n - 1), x \in SequenceItems(n)}

\* activity.steps as the server gives it: absent, or a list of steps
StepsValues ==
  {[kind |-> "absent", items |-> <<>>]}
  \cup {[kind |-> "list", items |-> [j \in 1..n |-> [activityStepId |-> AllStepIds[j]]]] :
          n \in 0..MaxSteps}

FreshActivities == [activityId : ActivityIds, steps : StepsValues]

\* the decoded activity lists: activities with distinct ids, in any order
FreshLists ==
  {l \in SeqsUpTo(FreshActivities, MaxActs) :
     \A i, j \in 1..Len(l) : l[i].activityId = l[j].activityId => i = j}

\* sequence.activities as the server gives it: a list, a string (the JSON
\* text of a list, the JSON text of something else, or no JSON text), or
\* another value
ActivitiesPayloads ==
  {[kind |-> "list", text |-> "", decoded |-> [kind |-> "list", items |-> l]] : l \in FreshLists}
  \cup {[kind |-> "string", text |-> "json", decoded |-> [kind |-> "list", items |-> l]] :
          l \in FreshLists}
  \cup {[kind |-> "string", text |-> "json", decoded |-> [kind |-> "other", items |-> <<>>]],
        [kind |-> "string", text |-> "garbage", decoded |-> [kind |-> "other", items |-> <<>>]],
        [kind |-> "other", text |-> "", decoded |-> [kind |-> "other", items |-> <<>>]]}

NoSequence ==
  [present |-> FALSE, sequenceId |-> "",
   activities |-> [kind |-> "other", text |-> "", decoded |-> [kind |-> "other", items |-> <<>>]]]

\* data of a getSequence answer: data.sequence is null or a sequence record
SequencePayloads ==
  {[kind |-> "sequence", sequence |-> NoSequence]}
  \cup {[kind |-> "sequence",
         sequence |-> [present |-> TRUE, sequenceId |-> "sq", activities |-> a]] :
          a \in ActivitiesPayloads}

(***************************************************************************)
(* handleProcessSelected.  A step of the model is the code between two     *)
(* awaits, cut also at the end of each iteration of the loop over the      *)
(* sequences.  hps.pc is where the handler stands:                         *)
(*   "idle"           not started                                          *)
(*   "awaitSequence"  in await getSequence(...)                            *)
(*   "awaitStep"      in await addProgressForActivity(...) of a step       *)
(*   "awaitActivity"  in await addProgressForActivity(...) of an activity  *)
(*                    without steps                                        *)
(*   "seqEnd"         at the end of the iteration for sequences[seqIdx]    *)
(*   "done"           returned                                             *)
(* A world w is the part of the state the handler writes.                  *)
(***************************************************************************)
NoCall ==
  [courseId |-> "", sequenceId |-> "", activityId |-> "", activityStepId |-> "", score |-> 0]

HpsIdle ==
  [pc |-> "idle", totalActivities |-> 0, successCount |-> 0, errorCount |-> 0,
   seqIdx |-> 0, selectedActivities |-> <<>>, sequenceId |-> "", activities |-> <<>>,
   stepsProcessed |-> 0, actIdx |-> 0, found |-> 0, stepIdx |-> 0, call |-> NoCall]

\* history: the sequences fetched so far and, for the iteration of the
\* current sequence, how its getSequence ended ("pending", "raised",
\* "nodata", "returned"), what sequence.activities was ("list": an array
\* or the JSON text of a non-empty array, "[]": the JSON text of an empty
\* array, "unparsable", "nonlist"), the counters when it began, the
\* submissions issued, and one entry per selected activity handled
ObsIdle ==
  [fetchLog |-> <<>>, fetch |-> "none", payload |-> "none",
   base |-> [success |-> 0, error |-> 0],
   subLog |-> <<>>, actBase |-> [success |-> 0, error |-> 0, steps |-> 0, calls |-> 0],
   actLog |-> <<>>]

\* the value of Continue(e), with e evaluated once: a statement sequence
\* "const w = e; continue with w"
Then(e, Continue(_)) == CHOOSE r \in {Continue(x) : x \in {e}} : TRUE

Line(kind, seq, steps, acts, succeeded, failed) ==
  [kind |-> kind, seq |-> seq, steps |-> steps, acts |-> acts,
   succeeded |-> succeeded, failed |-> failed]

\* SelectedOf giving the selected activities last first
SelectedOfReversed(seq) ==
  LET sel == SelectSeq(seq.activities, LAMBDA a : a.selected)
  IN  [k \in 1..Len(sel) |-> sel[Len(sel) + 1 - k]]

\* seq.activities.filter((a) => a.selected)
SelectedOf(seq) == SelectSeq(seq.activities, LAMBDA a : a.selected)

\* TotalSelected without the test of seq.selected
RECURSIVE TotalSelectedAnySequence(_)
TotalSelectedAnySequence(seqs) ==
  IF seqs = <<>> THEN 0
  ELSE Len(SelectedOf(Head(seqs))) + TotalSelectedAnySequence(Tail(seqs))

RECURSIVE TotalSelected(_)
TotalSelected(seqs) ==
  IF seqs = <<>> THEN 0
  ELSE (IF Head(seqs).selected THEN Len(SelectedOf(Head(seqs))) ELSE 0)
       + TotalSelected(Tail(seqs))

\* activities.find((a) => a.activityId === id): the first match, 0 for none
Find(activities, id) ==
  IF \E i \in 1..Len(activities) : activities[i].activityId = id
    THEN CHOOSE i \in 1..Len(activities) :
           /\ activities[i].activityId = id
           /\ \A j \in 1..(i - 1) : activities[j].activityId # id
    ELSE 0

\* history: the iteration of the activity loop for selectedActivities[k] ends
ActDone(w0, k, found) ==
  Then(w0, LAMBDA w :
  LET act == IF found = 0 THEN [activityId |-> w.hps.selectedActivities[k].activityId,
                                steps |-> [kind |-> "absent", items |-> <<>>]]
             ELSE w.hps.activities[found]
  IN  [w EXCEPT !.obs.actLog = Append(@,
        [activityId |-> act.activityId, found |-> found # 0,
         stepsKind |-> act.steps.kind, nSteps |-> Len(act.steps.items),
         dSuccess |-> w.hps.successCount - w.obs.actBase.success,
         dError |-> w.hps.errorCount - w.obs.actBase.error,
         dSteps |-> w.hps.stepsProcessed - w.obs.actBase.steps,
         calls |-> SubSeq(w.obs.subLog, w.obs.actBase.calls + 1, Len(w.obs.subLog))])])

\* history: the iteration of the activity loop for selectedActivities[k] begins
ActBegin(w0) ==
  Then(w0, LAMBDA w :
  [w EXCEPT !.obs.actBase = [success |-> w.hps.successCount, error |-> w.hps.errorCount,
                             steps |-> w.hps.stepsProcessed, calls |-> Len(w.obs.subLog)]])

\* the call of addProgressForActivity, up to its await
IssueCall(w0, pc, call) ==
  Then(w0, LAMBDA w :
  [w EXCEPT !.hps.pc = pc, !.hps.call = call,
            !.obs.subLog = Append(@, [call |-> call, outcome |-> "pending"])])

RECURSIVE ActLoop(_, _), StepLoop(_, _, _)

\* for (const step of activity.steps), from its j-th step on
StepLoop(w0, k, j) ==
  Then(w0, LAMBDA w :
  LET activity == w.hps.activities[w.hps.found]
      seq == sequences[w.hps.seqIdx]
  IN  IF j > Len(activity.steps.items)
        THEN ActLoop(ActDone([w EXCEPT !.hps.successCount = @ + 1], k, w.hps.found), k + 1)
        ELSE IssueCall([w EXCEPT !.hps.stepIdx = j], "awaitStep",
               [courseId |-> seq.courseId, sequenceId |-> w.hps.sequenceId,
                activityId |-> activity.activityId,
                activityStepId |-> activity.steps.items[j].activityStepId, score |-> 1]))

\* ActivityNotFound with the miss counted as a failed activity
ActivityNotFoundCountsError(w, k) ==
  ActLoop(ActDone([w EXCEPT !.hps.errorCount = @ + 1], k, 0), k + 1)

\* if (!activity) continue: the selected activity is not in the fresh list
ActivityNotFound(w, k) == ActLoop(ActDone(w, k, 0), k + 1)

\* for (const selectedAct of selectedActivities), from its k-th element on
ActLoop(w0, k) ==
  Then(ActBegin(w0), LAMBDA w :
  LET seq == sequences[w.hps.seqIdx]
  IN  IF k > Len(w.hps.selectedActivities)
        THEN [w EXCEPT !.hps.pc = "seqEnd",
                       !.result = Append(@, Line("ok", w.hps.seqIdx, w.hps.stepsProcessed,
                                                 Len(w.hps.selectedActivities), 0, 0))]
        ELSE
          LET found == Find(w.hps.activities, w.hps.selectedActivities[k].activityId)
              wk == [w EXCEPT !.hps.actIdx = k, !.hps.found = found]
          IN  IF found = 0 THEN ActivityNotFound(wk, k)
              ELSE IF w.hps.activities[found].steps.kind = "list"
                THEN StepLoop(wk, k, 1)
                ELSE IssueCall(wk, "awaitActivity",
                       [courseId |-> seq.courseId, sequenceId |-> w.hps.sequenceId,
                        activityId |-> w.hps.activities[found].activityId,
                        activityStepId |-> w.hps.activities[found].activityId,
                        score |-> 1]))

\* StepReturns with the count outside the try: every attempt is counted
StepReturnsCountsAttempts(w0, k, j, raised) ==
  StepLoop([w0 EXCEPT !.hps.stepsProcessed = @ + 1], k, j + 1)

\* StepReturns with a catch that counts the failed step as an error
StepReturnsCountsError(w0, k, j, raised) ==
  IF raised THEN StepLoop([w0 EXCEPT !.hps.errorCount = @ + 1], k, j + 1)
  ELSE StepLoop([w0 EXCEPT !.hps.stepsProcessed = @ + 1], k, j + 1)

\* StepReturns with the try around the whole step loop: a failed step ends
\* the loop of its activity
StepReturnsLeavesLoop(w0, k, j, raised) ==
  IF raised THEN ActLoop(ActDone(w0, k, w0.hps.found), k + 1)
  ELSE StepLoop([w0 EXCEPT !.hps.stepsProcessed = @ + 1], k, j + 1)

\* the try/catch around the submission of the j-th step: the count of
\* processed steps, then the rest of the step loop
StepReturns(w0, k, j, raised) ==
  Then(w0, LAMBDA w :
  IF raised THEN StepLoop(w, k, j + 1)
  ELSE StepLoop([w EXCEPT !.hps.stepsProcessed = @ + 1], k, j + 1))

\* the try/catch around the submission of an activity without steps
ActivityReturns(w0, k, raised) ==
  Then(w0, LAMBDA w :
  IF raised
    THEN ActLoop(ActDone([w EXCEPT !.hps.errorCount = @ + 1], k, w.hps.found), k + 1)
    ELSE ActLoop(ActDone([w EXCEPT !.hps.stepsProcessed = @ + 1,
                                   !.hps.successCount = @ + 1], k, w.hps.found), k + 1))

\* SequenceFailed counting the sequence once, not its selected activities
SequenceFailedCountsOne(w0, kind) ==
  [w0 EXCEPT !.hps.pc = "seqEnd",
            !.hps.errorCount = @ + 1,
            !.result = Append(@, Line(kind, w0.hps.seqIdx, 0, 0, 0, 0))]

\* SequenceFailed without the inner catch: the failure reaches the outer
\* catch and the finally block, and the handler returns
SequenceFailedEndsBatch(w0, kind) ==
  [w0 EXCEPT !.hps.pc = "done", !.processing = FALSE, !.error = "error"]

\* the catch of the iteration for a sequence, and its "No sequence data" exit
SequenceFailed(w0, kind) ==
  Then(w0, LAMBDA w :
  [w EXCEPT !.hps.pc = "seqEnd",
            !.hps.errorCount = @ + Len(w.hps.selectedActivities),
            !.result = Append(@, Line(kind, w.hps.seqIdx, 0, 0, 0, 0))])

\* the variables declared in the body of the loop over the sequences end
\* with the iteration, and the history of the iteration with them
EndIteration(w0) ==
  Then(w0, LAMBDA w :
  [w EXCEPT !.hps.selectedActivities = <<>>, !.hps.sequenceId = "",
            !.hps.activities = <<>>, !.hps.stepsProcessed = 0, !.hps.actIdx = 0,
            !.hps.found = 0, !.hps.stepIdx = 0, !.hps.call = NoCall,
            !.obs.fetch = "none", !.obs.payload = "none",
            !.obs.base = [success |-> w.hps.successCount, error |-> w.hps.errorCount],
            !.obs.subLog = <<>>, !.obs.actBase = ObsIdle.actBase, !.obs.actLog = <<>>])

RECURSIVE SeqLoop(_, _)

\* SeqLoop without the setResult that follows the loop: no summary line
SeqLoopWithoutSummary(w0, i) ==
  IF i > Len(sequences)
    THEN [w0 EXCEPT !.hps.pc = "done", !.processing = FALSE]
  ELSE IF ~sequences[i].selected THEN SeqLoop(w0, i + 1)
  ELSE IF Len(SelectedOf(sequences[i])) = 0 THEN SeqLoop(w0, i + 1)
  ELSE [w0 EXCEPT !.hps.pc = "awaitSequence", !.hps.seqIdx = i,
                 !.hps.selectedActivities = SelectedOf(sequences[i]),
                 !.obs.fetchLog = Append(@, i), !.obs.fetch = "pending"]

\* SeqLoop without the finally block: the processing flag stays set
SeqLoopKeepsProcessing(w0, i) ==
  IF i > Len(sequences)
    THEN [w0 EXCEPT !.hps.pc = "done",
                   !.result = Append(@, Line("summary", 0, 0, 0, w0.hps.successCount,
                                             w0.hps.errorCount))]
  ELSE IF ~sequences[i].selected THEN SeqLoop(w0, i + 1)
  ELSE IF Len(SelectedOf(sequences[i])) = 0 THEN SeqLoop(w0, i + 1)
  ELSE [w0 EXCEPT !.hps.pc = "awaitSequence", !.hps.seqIdx = i,
                 !.hps.selectedActivities = SelectedOf(sequences[i]),
                 !.obs.fetchLog = Append(@, i), !.obs.fetch = "pending"]

\* for (const seq of sequences), from its i-th element on, up to the await
\* of getSequence; after the loop, the summary line and the finally block
SeqLoop(w0, i) ==
  Then(w0, LAMBDA w :
  IF i > Len(sequences)
    THEN [w EXCEPT !.hps.pc = "done", !.processing = FALSE,
                   !.result = Append(@, Line("summary", 0, 0, 0, w.hps.successCount,
                                             w.hps.errorCount))]
  ELSE IF ~sequences[i].selected THEN SeqLoop(w, i + 1)
  ELSE IF Len(SelectedOf(sequences[i])) = 0 THEN SeqLoop(w, i + 1)
  ELSE [w EXCEPT !.hps.pc = "awaitSequence", !.hps.seqIdx = i,
                 !.hps.selectedActivities = SelectedOf(sequences[i]),
                 !.obs.fetchLog = Append(@, i), !.obs.fetch = "pending"])

World == [hps |-> hps, processing |-> processing, error |-> error, result |-> result,
          obs |-> obs]

Becomes(w0) ==
  \E w \in {w0} :
    /\ hps' = w.hps
    /\ processing' = w.processing
    /\ error' = w.error
    /\ result' = w.result
    /\ obs' = w.obs

\* typeof activities === "string" -> JSON.parse; !Array.isArray -> []
NormalizeActivities(payload) ==
  IF payload.kind = "string"
    THEN LET parsed == JSONParse([text |-> payload.text, value |-> payload.decoded])
         IN  IF ~parsed.ok THEN [threw |-> TRUE, list |-> <<>>]
             ELSE IF parsed.value.kind = "list"
               THEN [threw |-> FALSE, list |-> parsed.value.items]
               ELSE [threw |-> FALSE, list |-> <<>>]
  ELSE IF payload.kind = "list" THEN [threw |-> FALSE, list |-> payload.decoded.items]
  ELSE [threw |-> FALSE, list |-> <<>>]

\* the answers of the environment to the submissions of a batch: one of
\* Envs for each way through addProgressForActivity
CapturedRequest ==
  [kind |-> "req", url |-> "https://page/graphql", method |-> "POST",
   headers |-> "captured-headers",
   body |-> JSONStringify([kind |-> "obj", variables |-> "obj",
                           messages |-> [kind |-> "list", items |-> <<CapturedMsg>>]])]
NothingStored ==
  [kind |-> "absent", url |-> "", method |-> "", headers |-> "",
   body |-> [text |-> "absent", value |-> NoValue]]
StorageThrows ==
  [kind |-> "throws", url |-> "", method |-> "", headers |-> "",
   body |-> [text |-> "absent", value |-> NoValue]]
ExecThrows ==
  [kind |-> "throws", status |-> 0, ok |-> FALSE, json |-> FALSE, errors |-> "absent"]
ExecResult(st, e) ==
  [kind |-> "result", status |-> st, ok |-> ResOk(st), json |-> TRUE, errors |-> e]
DirectAnswer(st, e) ==
  [kind |-> "http", status |-> st, json |-> TRUE, errors |-> e,
   data |-> IF ResOk(st) /\ e = "absent" THEN [kind |-> "progress"] ELSE NoValue]
DirectRejects ==
  [kind |-> "reject", status |-> 0, json |-> FALSE, errors |-> "absent", data |-> NoValue]

BatchEnvs ==
  {[store |-> NothingStored, tab |-> "ok", exec |-> ExecThrows, direct |-> DirectAnswer(200, "absent"),
    uuids |-> 0],
   [store |-> NothingStored, tab |-> "ok", exec |-> ExecThrows, direct |-> DirectAnswer(500, "absent"),
    uuids |-> 0],
   [store |-> NothingStored, tab |-> "ok", exec |-> ExecThrows, direct |-> DirectAnswer(200, "list"),
    uuids |-> 0],
   [store |-> StorageThrows, tab |-> "ok", exec |-> ExecThrows, direct |-> DirectRejects,
    uuids |-> 0],
   [store |-> CapturedRequest, tab |-> "ok", exec |-> ExecResult(200, "absent"), direct |-> DirectRejects,
    uuids |-> 0],
   [store |-> CapturedRequest, tab |-> "ok", exec |-> ExecResult(500, "absent"), direct |-> DirectRejects,
    uuids |-> 0],
   [store |-> CapturedRequest, tab |-> "ok", exec |-> ExecThrows, direct |-> DirectAnswer(200, "absent"),
    uuids |-> 0],
   [store |-> CapturedRequest, tab |-> "throws", exec |-> ExecThrows, direct |-> DirectAnswer(500, "absent"),
    uuids |-> 0]}

\* handleProcessSelected, from the click to its first await or its return
HandleProcessSelected ==
  /\ hps.pc = "idle"
  /\ LET totalActivities == TotalSelected(sequences) IN
     IF totalActivities = 0
       THEN /\ error' = "Please select at least one activity in a sequence"
            /\ hps' = [hps EXCEPT !.pc = "done"]
            /\ UNCHANGED <<processing, result, obs>>
       ELSE Becomes(SeqLoop(
              [World EXCEPT !.processing = TRUE,
                            !.result = <<Line("processing", 0, 0, totalActivities, 0, 0)>>,
                            !.hps.totalActivities = totalActivities,
                            !.hps.successCount = 0, !.hps.errorCount = 0], 1))
  /\ UNCHANGED <<sequences, api, submitVars, loadVars, pap, ui>>

\* history: what sequence.activities was
PayloadKind(payload) ==
  IF payload.kind = "list" THEN "list"
  ELSE IF payload.kind = "string" /\ payload.text # "json" THEN "unparsable"
  ELSE IF payload.kind = "string" /\ payload.decoded.kind = "list"
    THEN (IF payload.decoded.items = <<>> THEN "[]" ELSE "list")
  ELSE "nonlist"

\* the await of getSequence ends: the rest of the iteration for the
\* sequence, up to the next await or to the end of the iteration
GetSequenceReturns ==
  /\ hps.pc = "awaitSequence"
  /\ \E seqSlug \in {TitleToSlug(sequences[hps.seqIdx].sequenceTitle)},
        resp \in Responses(SequencePayloads) :
       \E seqData \in {GetSequence(sequences[hps.seqIdx].courseId, seqSlug, "fr-FR", resp)} :
           IF seqData.raised
             THEN Becomes(SequenceFailed([World EXCEPT !.obs.fetch = "raised"], "error"))
           ELSE IF ~seqData.value.sequence.present
             THEN Becomes(SequenceFailed([World EXCEPT !.obs.fetch = "nodata"], "nodata"))
           ELSE
             \E sequence \in {seqData.value.sequence} :
             \E norm \in {NormalizeActivities(sequence.activities)} :
                 IF norm.threw
                   THEN Becomes(SequenceFailed(
                          [World EXCEPT !.obs.fetch = "returned",
                                        !.obs.payload = PayloadKind(sequence.activities)],
                          "error"))
                   ELSE Becomes(ActLoop(
                          [World EXCEPT !.obs.fetch = "returned",
                                        !.obs.payload = PayloadKind(sequence.activities),
                                        !.hps.sequenceId = sequence.sequenceId,
                                        !.hps.activities = norm.list,
                                        !.hps.stepsProcessed = 0], 1))
  /\ UNCHANGED <<sequences, api, submitVars, loadVars, pap, ui>>

\* the await of addProgressForActivity ends: the rest of the iteration, up
\* to the next await or to the end of the iteration
AddProgressReturns ==
  /\ hps.pc \in {"awaitStep", "awaitActivity"}
  /\ \E env \in BatchEnvs :
       LET c == hps.call
           r == AddProgressForActivity(c.courseId, c.sequenceId, c.activityId,
                                       c.activityStepId, c.score, env)
           w == [World EXCEPT !.obs.subLog[Len(obs.subLog)].outcome =
                                 IF r.raised THEN "raised" ELSE "returned"]
       IN  IF hps.pc = "awaitStep"
             THEN Becomes(StepReturns(w, hps.actIdx, hps.stepIdx, r.raised))
             ELSE Becomes(ActivityReturns(w, hps.actIdx, r.raised))
  /\ UNCHANGED <<sequences, api, submitVars, loadVars, pap, ui>>

\* the next iteration of the loop over the sequences begins (or the loop ends)
NextIteration ==
  /\ hps.pc = "seqEnd"
  /\ Becomes(SeqLoop(EndIteration(World), hps.seqIdx + 1))
  /\ UNCHANGED <<sequences, api, submitVars, loadVars, pap, ui>>

(***************************************************************************)
(* Submissions one after the other: each addProgressForActivity reads the  *)
(* captured request anew (the capture collaborator may have replaced it)   *)
(* and draws its attempt ids from the generator, whose calls are counted   *)
(* in uuids.  createProgressRequest is the other producer of messages.     *)
(***************************************************************************)
\* createProgressRequest(baseRequest), after g calls of generateUUID
CreateProgressRequest(baseRequest, g) ==
  LET parsed == IF baseRequest.body.text \in {"absent", "empty"}
                  THEN [ok |-> TRUE,
                        value |-> [kind |-> "obj", variables |-> "absent", messages |-> NoMessages]]
                  ELSE JSONParse(baseRequest.body)
  IN  IF ~parsed.ok THEN Generated(Raise("SyntaxError", <<>>), 0)
      ELSE IF \/ parsed.value.kind # "obj"
              \/ parsed.value.variables # "obj"
              \/ parsed.value.messages.kind # "list"
        THEN Generated(Raise("TypeError", <<>>), 0)
      ELSE
        LET ms == parsed.value.messages.items
            msgs == [i \in 1..Len(ms) |->
                       [ms[i] EXCEPT !.activityAttemptId = UUID(g + 2 * i - 1),
                                     !.activityStepAttemptId = UUID(g + 2 * i),
                                     !.endTimestamp = "now", !.durationMs = 745]]
        IN  Generated(Return([via |-> "created", url |-> baseRequest.url,
                              method |-> baseRequest.method, headers |-> baseRequest.headers,
                              body |-> JSONStringify([kind |-> "obj", variables |-> "obj",
                                         messages |-> [kind |-> "list", items |-> msgs]])],
                             <<>>), 2 * Len(ms))

\* the targets of the submissions
SubmitTargets == {<<"c1", "sq1", "a1", "s1", 1>>, <<"c2", "sq2", "a2", "s2", 0>>}

\* the answers of the environment to the submissions: every captured
\* request, with the in-page execution and the direct POST each passing or
\* failing
SubmitEnvs ==
  [store : StoreAnswers, tab : {"ok", "throws"}, exec : {ExecThrows, ExecResult(200, "absent")},
   direct : {DirectRejects, DirectAnswer(200, "absent")}, uuids : {0}]

\* the requests a call produced that carry messages
ProducedRequests(a) ==
  IF a.op = "createProgressRequest"
    THEN (IF a.result.raised THEN <<>> ELSE <<a.result.value>>)
    ELSE SelectSeq(a.result.requests, LAMBDA r : r.via # "storage")

MessagesOf(req) ==
  IF req.via = "direct" THEN req.variables.messages ELSE req.body.value.messages.items

RECURSIVE ProducedMessages(_)
ProducedMessages(reqs) ==
  IF reqs = <<>> THEN <<>> ELSE MessagesOf(Head(reqs)) \o ProducedMessages(Tail(reqs))

AttemptIds(msgs) ==
  {msgs[i].activityAttemptId : i \in 1..Len(msgs)}
  \cup {msgs[i].activityStepAttemptId : i \in 1..Len(msgs)}

\* the number of messages of the captured request a call read, -1 for none
SnapshotSize(a) ==
  IF a.op = "addProgressForActivity" /\ a.env.store.kind = "req"
     /\ a.env.store.body.text = "json" /\ a.env.store.body.value.messages.kind = "list"
    THEN Len(a.env.store.body.value.messages.items)
    ELSE -1

\* history: the call in api becomes an earlier one
Archive ==
  IF api.op = "none" THEN sent
  ELSE Append(sent, [ids |-> AttemptIds(ProducedMessages(ProducedRequests(api))),
                     snapshot |-> SnapshotSize(api)])

Submit ==
  /\ Len(Archive) < MaxSubmits
  /\ \E target \in SubmitTargets, e \in SubmitEnvs :
       LET env == [e EXCEPT !.uuids = uuids]
           r == AddProgressForActivity(target[1], target[2], target[3], target[4],
                                       target[5], env)
       IN  /\ api' = [op |-> "addProgressForActivity", args |-> target, env |-> env,
                      result |-> r]
           /\ uuids' = uuids + r.uuids
  /\ sent' = Archive
  /\ UNCHANGED <<sequences, processing, error, result, hps, obs, loadVars, pap, ui>>

CallCreateProgressRequest ==
  /\ Len(Archive) < MaxSubmits
  /\ \E baseRequest \in {st \in StoreAnswers : st.kind = "req"} :
       LET r == CreateProgressRequest(baseRequest, uuids)
       IN  /\ api' = [op |-> "createProgressRequest", args |-> <<baseRequest>>,
                      env |-> [uuids |-> uuids], result |-> r]
           /\ uuids' = uuids + r.uuids
  /\ sent' = Archive
  /\ UNCHANGED <<sequences, processing, error, result, hps, obs, loadVars, pap, ui>>

(***************************************************************************)
(* What getCoursesAndProgress returns: data.assignedCourses is missing or  *)
(* a list of courses; course.sequences is missing or a list of sequences.  *)
(***************************************************************************)
AllCourseIds == <<"c1", "c2", "c3", "c4">>

\* course.sequences: absent, or a list of up to MaxSeqs sequences
SequencesOfCourse ==
  {[kind |-> "absent", items |-> <<>>]}
  \cup UNION {{[kind |-> "list",
                items |-> [s \in 1..n |-> [id |-> <<"seq", s>>, title |-> t[s]]]] :
                 t \in [1..n -> Titles]} : n \in 0..MaxSeqs}

CoursesAt(c) ==
  {[courseId |-> AllCourseIds[c], title |-> <<"Course", c>>, sequences |-> q] :
     q \in SequencesOfCourse}

RECURSIVE CourseListsOfLen(_)
CourseListsOfLen(n) ==
  IF n = 0 THEN {<<>>}
  ELSE {Append(l, x) : l \in CourseListsOfLen(n - 1), x \in CoursesAt(n)}

\* data of a getCoursesAndProgress answer
CoursesPayloads ==
  {[kind |-> "courses", assignedCourses |-> [present |-> FALSE, items |-> <<>>]]}
  \cup {[kind |-> "courses", assignedCourses |-> [present |-> TRUE, items |-> l]] :
          l \in UNION {CourseListsOfLen(n) : n \in 0..MaxCourses}}

(***************************************************************************)
(* processAllProgress.  A step of the model is the code between two        *)
(* awaits, cut also at the end of each iteration of the loop over the      *)
(* sequences of a course.  pap.pc is where the function stands:            *)
(*   "idle"           not called                                           *)
(*   "awaitCourses"   in await getCoursesAndProgress(locale)               *)
(*   "awaitSequence"  in await getSequence(...)                            *)
(*   "awaitStep"      in await addProgressForActivity(...) of a step       *)
(*   "awaitActivity"  in await addProgressForActivity(...) of an activity  *)
(*                    without steps                                        *)
(*   "seqEnd"         at the end of the iteration for a sequence           *)
(*   "returned"       returned                                             *)
(*   "raised"         ended by the throw of the outer catch                *)
(* Beside the local variables pap keeps a history: how the course fetch    *)
(* ended, the sequences fetched so far and, for the current sequence, how  *)
(* its fetch ended and the submissions issued.                             *)
(***************************************************************************)
PapIdle ==
  [pc |-> "idle", locale |-> "", courses |-> <<>>, ci |-> 0, si |-> 0,
   sequenceId |-> "", activities |-> <<>>, actIdx |-> 0, stepIdx |-> 0, call |-> NoCall,
   error |-> "",
   coursesFetch |-> "none", fetchError |-> "", fetchLog |-> <<>>, fetch |-> "none",
   subLog |-> <<>>]

\* PapIssueCall starting the submission a first time without awaiting it
PapIssueCallUnawaited(p, pc, call) ==
  [p EXCEPT !.pc = pc, !.call = call,
            !.subLog = @ \o <<[call |-> call, outcome |-> "pending"],
                              [call |-> call, outcome |-> "pending"]>>]

\* await addProgressForActivity(...): the call is issued
PapIssueCall(p, pc, call) ==
  [p EXCEPT !.pc = pc, !.call = call,
            !.subLog = Append(@, [call |-> call, outcome |-> "pending"])]

RECURSIVE PapActLoop(_, _)
\* for (const step of activity.steps), from its j-th element on
PapStepLoop(p, k, j) ==
  LET activity == p.activities[k] IN
  IF j > Len(activity.steps.items) THEN PapActLoop(p, k + 1)
  ELSE PapIssueCall([p EXCEPT !.actIdx = k, !.stepIdx = j], "awaitStep",
         [courseId |-> p.courses[p.ci].courseId, sequenceId |-> p.sequenceId,
          activityId |-> activity.activityId,
          activityStepId |-> activity.steps.items[j].activityStepId, score |-> 1])

\* for (let i = 0; i < activities.length; i++), from activities[k] on
PapActLoop(p, k) ==
  IF k > Len(p.activities) THEN [p EXCEPT !.pc = "seqEnd"]
  ELSE LET activity == p.activities[k] IN
       IF activity.steps.kind = "list" /\ Len(activity.steps.items) > 0
         THEN PapStepLoop(p, k, 1)
         ELSE PapIssueCall([p EXCEPT !.actIdx = k, !.stepIdx = 0], "awaitActivity",
                [courseId |-> p.courses[p.ci].courseId, sequenceId |-> p.sequenceId,
                 activityId |-> activity.activityId,
                 activityStepId |-> activity.activityId, score |-> 1])

\* the submission of step j of activities[k] returns or raises: the try is
\* around the whole activity, so its catch ends the loop over the steps
PapStepReturns(p, k, j, raised) ==
  IF raised THEN PapActLoop(p, k + 1)
  ELSE PapStepLoop(p, k, j + 1)

\* the submission of the activity without steps returns or raises
PapActivityReturns(p, k, raised) == PapActLoop(p, k + 1)

\* history: the iteration for a sequence ends
PapEndIteration(p) ==
  [p EXCEPT !.sequenceId = "", !.activities = <<>>, !.actIdx = 0, !.stepIdx = 0,
            !.call = NoCall, !.fetch = "none", !.subLog = <<>>]

RECURSIVE PapSeqLoop(_, _, _)
\* for (const course of courses) for (const seq of course.sequences), from
\* sequence s of course c on, up to the await of getSequence
PapSeqLoop(p, c, s) ==
  IF c > Len(p.courses) THEN [p EXCEPT !.pc = "returned"]
  ELSE IF p.courses[c].sequences.kind # "list" THEN PapSeqLoop(p, c + 1, 1)
  ELSE IF s > Len(p.courses[c].sequences.items) THEN PapSeqLoop(p, c + 1, 1)
  ELSE [p EXCEPT !.pc = "awaitSequence", !.ci = c, !.si = s,
                 !.fetchLog = Append(@, <<c, s>>), !.fetch = "pending"]

\* PapCoursesFailed with the outer catch swallowing the error
PapCoursesFailedSwallowed(p, e) == [p EXCEPT !.pc = "returned"]

\* the outer catch: the error is logged and thrown again
PapCoursesFailed(p, e) == [p EXCEPT !.pc = "raised", !.error = e]

\* the component after its construction
AtConstruction ==
  /\ sequences = <<>>
  /\ ~processing
  /\ ~loading
  /\ hps.pc = "idle"
  /\ hls.pc = "idle"
  /\ hls.loads = 0

\* processAllProgress(locale) is called, up to its first await.  It reads
\* and writes nothing of the component, so it is followed from the state
\* after construction only.
ProcessAllProgress ==
  /\ pap.pc = "idle"
  /\ AtConstruction
  /\ \E locale \in Locales :
       pap' = [pap EXCEPT !.pc = "awaitCourses", !.locale = locale,
                          !.coursesFetch = "pending"]
  /\ UNCHANGED <<sequences, processing, error, result, hps, obs, api, submitVars, loadVars, ui>>

\* the await of getCoursesAndProgress ends
PapCoursesReturn ==
  /\ pap.pc = "awaitCourses"
  /\ \E resp \in Responses(CoursesPayloads) :
       LET coursesData == GetCoursesAndProgress(pap.locale, resp) IN
       IF coursesData.raised
         THEN pap' = PapCoursesFailed([pap EXCEPT !.coursesFetch = "raised",
                                                  !.fetchError = coursesData.error],
                                      coursesData.error)
       ELSE IF ~coursesData.value.assignedCourses.present
         THEN pap' = PapCoursesFailed([pap EXCEPT !.coursesFetch = "nocourses"],
                                      "No courses found")
       ELSE pap' = PapSeqLoop([pap EXCEPT !.coursesFetch = "returned",
                                          !.courses = coursesData.value.assignedCourses.items],
                              1, 1)
  /\ UNCHANGED <<sequences, processing, error, result, hps, obs, api, submitVars, loadVars, ui>>

\* the await of getSequence ends: the rest of the iteration for the
\* sequence, up to the next await or to the end of the iteration
PapSequenceReturns ==
  /\ pap.pc = "awaitSequence"
  /\ \E resp \in Responses(SequencePayloads) :
       LET course == pap.courses[pap.ci]
           seq == course.sequences.items[pap.si]
           sequenceData == GetSequence(course.courseId, TitleToSlug(seq.title),
                                       pap.locale, resp)
       IN  IF sequenceData.raised
             THEN pap' = [pap EXCEPT !.pc = "seqEnd", !.fetch = "raised"]
           ELSE IF ~sequenceData.value.sequence.present
             THEN pap' = [pap EXCEPT !.pc = "seqEnd", !.fetch = "nodata"]
           ELSE
             LET sequence == sequenceData.value.sequence
                 activities == NormalizeActivities(sequence.activities).list
             IN  IF Len(activities) = 0
                   THEN pap' = [pap EXCEPT !.pc = "seqEnd", !.fetch = "returned"]
                   ELSE pap' = PapActLoop([pap EXCEPT !.fetch = "returned",
                                                      !.sequenceId = sequence.sequenceId,
                                                      !.activities = activities], 1)
  /\ UNCHANGED <<sequences, processing, error, result, hps, obs, api, submitVars, loadVars, ui>>

\* the await of addProgressForActivity ends: the rest of the iteration, up
\* to the next await or to the end of the iteration
PapSubmissionReturns ==
  /\ pap.pc \in {"awaitStep", "awaitActivity"}
  /\ \E env \in BatchEnvs :
       LET c == pap.call
           r == AddProgressForActivity(c.courseId, c.sequenceId, c.activityId,
                                       c.activityStepId, c.score, env)
           p == [pap EXCEPT !.subLog[Len(pap.subLog)].outcome =
                              IF r.raised THEN "raised" ELSE "returned"]
       IN  IF pap.pc = "awaitStep"
             THEN pap' = PapStepReturns(p, pap.actIdx, pap.stepIdx, r.raised)
             ELSE pap' = PapActivityReturns(p, pap.actIdx, r.raised)
  /\ UNCHANGED <<sequences, processing, error, result, hps, obs, api, submitVars, loadVars, ui>>

\* the next iteration of the loop over the sequences begins (or the loops end)
PapNextSequence ==
  /\ pap.pc = "seqEnd"
  /\ pap' = PapSeqLoop(PapEndIteration(pap), pap.ci, pap.si + 1)
  /\ UNCHANGED <<sequences, processing, error, result, hps, obs, api, submitVars, loadVars, ui>>

(***************************************************************************)
(* handleLoadSequences: the click on the Load button, and the end of its   *)
(* await of getCoursesAndProgress.  hls keeps, beside the position, a      *)
(* history: the number of loads, the list at the click, how the load ended *)
(* ("loaded", "nocourses", "raised"), the courses received and the error   *)
(* getCoursesAndProgress raised.                                           *)
(***************************************************************************)
HlsIdle ==
  [pc |-> "idle", loads |-> 0, prev |-> <<>>, outcome |-> "none", courses |-> <<>>,
   failure |-> ""]

\* SeqItemsOf taking the courses last first
RECURSIVE SeqItemsOfLastCourseFirst(_)
SeqItemsOfLastCourseFirst(courses) ==
  IF courses = <<>> THEN <<>>
  ELSE LET course == Head(courses) IN
       SeqItemsOfLastCourseFirst(Tail(courses))
       \o (IF course.sequences.kind = "list"
             THEN [s \in 1..Len(course.sequences.items) |->
                     [courseId |-> course.courseId, courseName |-> course.title,
                      sequenceId |-> course.sequences.items[s].id,
                      sequenceTitle |-> course.sequences.items[s].title,
                      selected |-> FALSE, expanded |-> FALSE, activities |-> <<>>,
                      loading |-> FALSE]]
             ELSE <<>>)

\* seqItems: one item pushed for each sequence of each course that has
\* sequences
RECURSIVE SeqItemsOf(_)
SeqItemsOf(courses) ==
  IF courses = <<>> THEN <<>>
  ELSE LET course == Head(courses) IN
       (IF course.sequences.kind = "list" /\ Len(course.sequences.items) > 0
          THEN [s \in 1..Len(course.sequences.items) |->
                  [courseId |-> course.courseId, courseName |-> course.title,
                   sequenceId |-> course.sequences.items[s].id,
                   sequenceTitle |-> course.sequences.items[s].title,
                   selected |-> FALSE, expanded |-> FALSE, activities |-> <<>>,
                   loading |-> FALSE]]
          ELSE <<>>)
       \o SeqItemsOf(Tail(courses))

\* the click on Load (the button is disabled while loading), up to the
\* await.  Loads are followed before a run of processAllProgress or after
\* one that raised, at most MaxLoads of them.
HandleLoadSequences ==
  /\ hls.pc = "idle"
  /\ ~loading
  /\ pap.pc \in {"idle", "raised"}
  /\ hls.loads < MaxLoads
  /\ error' = ""
  /\ result' = <<>>
  /\ loading' = TRUE
  /\ hls' = [hls EXCEPT !.pc = "awaitCourses", !.loads = @ + 1, !.prev = sequences,
                        !.outcome = "none", !.courses = <<>>, !.failure = ""]
  /\ UNCHANGED <<sequences, processing, hps, obs, api, submitVars, reported, pap, ui>>

\* the await of getCoursesAndProgress("fr-FR") ends: the rest of the
\* handler with its catch and its finally
LoadCoursesReturn ==
  /\ hls.pc = "awaitCourses"
  /\ \E resp \in Responses(CoursesPayloads) :
       LET data == GetCoursesAndProgress("fr-FR", resp) IN
       IF data.raised
         THEN /\ error' = data.error
              /\ reported' = Append(reported, data.error)
              /\ hls' = [hls EXCEPT !.pc = "idle", !.outcome = "raised",
                                    !.failure = data.error]
              /\ UNCHANGED <<sequences, result>>
       ELSE IF ~data.value.assignedCourses.present
         THEN /\ error' = "No courses found"
              /\ hls' = [hls EXCEPT !.pc = "idle", !.outcome = "nocourses"]
              /\ UNCHANGED <<sequences, result, reported>>
       ELSE LET seqItems == SeqItemsOf(data.value.assignedCourses.items) IN
            /\ sequences' = seqItems
            /\ result' = <<Line("loaded", Len(seqItems), 0, 0, 0, 0)>>
            /\ hls' = [hls EXCEPT !.pc = "idle", !.outcome = "loaded",
                                  !.courses = data.value.assignedCourses.items]
            /\ UNCHANGED <<error, reported>>
  /\ loading' = FALSE
  /\ UNCHANGED <<processing, hps, obs, api, submitVars, pap, ui>>

(***************************************************************************)
(* The selection tree as JavaScript objects.  The React state is an array  *)
(* of SequenceItem objects; the handlers copy the array but not always the *)
(* objects, and keep the arrays and objects they hold across an await.  A  *)
(* sequence object is a record as a SequenceItem whose activities field    *)
(* names an array of activities; ui.seqs[r] is the object r and            *)
(* ui.arrs[a] the array a with its activity objects (an activity object    *)
(* belongs to one array only).  ui.list is the React state, the objects    *)
(* of the current array; the variable sequences is its content.            *)
(*   ui.loads    the loads of handleToggleSequence in flight, each with    *)
(*               the array newSequences and the object seq it holds        *)
(*   ui.batch    handleProcessSelected with the array it iterates          *)
(*   ui.actions  the number of operator actions so far                     *)
(*   ui.last     history: the last handler step, the sequences it turned   *)
(*               from unselected to selected while not expanded, those it  *)
(*               started a load for, and (for the end of a load) the index *)
(*               loaded and the content of the state before it             *)
(***************************************************************************)
UiNoAction == [kind |-> "none", newly |-> {}, triggered |-> {}, index |-> 0, pre |-> <<>>]

UiBatchIdle ==
  [pc |-> "idle", closure |-> <<>>, atStart |-> <<>>, idx |-> 0,
   selectedActivities |-> <<>>, totalActivities |-> 0,
   successCount |-> 0, errorCount |-> 0, turns |-> <<>>, counted |-> <<>>]

UiIdle ==
  [list |-> <<>>, seqs |-> <<>>, arrs |-> <<>>, loads |-> <<>>, batch |-> UiBatchIdle,
   actions |-> 0, last |-> UiNoAction]

\* the content of the object r: its fields, with the activities of its array
Deref(u, r) == [u.seqs[r] EXCEPT !.activities = u.arrs[@]]

\* the content of an array of sequence objects
Content(u, refs) == [i \in 1..Len(refs) |-> Deref(u, refs[i])]

\* the items of the list when the operator acts: not expanded (selected by
\* Select All or not), or expanded with the MaxActs activities that were
\* loaded, each selected or not
UiItems(i) ==
  {SequenceItem(i, <<"S", "e'", " ", "1">>, sel, <<>>) : sel \in BOOLEAN}
  \cup {it \in SequenceItems(i) : /\ Len(it.activities) = MaxActs
                                 /\ it.sequenceTitle = <<"S", "e'", " ", "1">>}

RECURSIVE UiListsOfLen(_)
UiListsOfLen(n) ==
  IF n = 0 THEN {<<>>}
  ELSE {Append(l, x) : l \in UiListsOfLen(n - 1), x \in UiItems(n)}

\* the state variable follows the objects of the current array
Shows(u) == sequences' = Content(u, u.list)

\* .map((act) => ({ ...act, selected: false })): new activity objects
Unselected(acts) == [k \in 1..Len(acts) |-> [acts[k] EXCEPT !.selected = FALSE]]

\* handleToggleSequence(index), up to its await or to its end: the object
\* of the current array is changed in place
HandleToggleSequence ==
  /\ ui.actions < MaxUiActions
  /\ \E index \in 1..Len(ui.list) :
       LET r == ui.list[index]
           seq == ui.seqs[r]
           did == [UiNoAction EXCEPT !.kind = "handleToggleSequence", !.index = index]
       IN  IF ~seq.selected /\ ~seq.expanded
             THEN \E u \in {[ui EXCEPT !.seqs[r].selected = TRUE,
                                       !.seqs[r].loading = TRUE,
                                       !.loads = Append(@, [arr |-> ui.list, seq |-> r,
                                                            index |-> index]),
                                       !.actions = @ + 1,
                                       !.last = [did EXCEPT !.newly = {index},
                                                            !.triggered = {index}]]} :
                    ui' = u /\ Shows(u)
           ELSE IF seq.selected
             THEN \E u \in {[ui EXCEPT !.seqs[r].selected = FALSE,
                                       !.seqs[r].activities = Len(ui.arrs) + 1,
                                       !.arrs = Append(@, Unselected(ui.arrs[seq.activities])),
                                       !.actions = @ + 1,
                                       !.last = did]} :
                    ui' = u /\ Shows(u)
           ELSE \E u \in {[ui EXCEPT !.seqs[r].selected = TRUE,
                                     !.actions = @ + 1,
                                     !.last = did]} :
                    ui' = u /\ Shows(u)
  /\ UNCHANGED <<processing, error, result, hps, obs, api, submitVars, loadVars, pap>>

\* the answers of getSequence while the operator acts: no sequence, or a
\* sequence whose activities are not an array, a text that is no JSON, or
\* some of the activities in order, each without steps or with one step
UiFreshLists ==
  {SelectSeq([k \in 1..MaxActs |-> [activityId |-> AllActivityIds[k], steps |-> kinds[k]]],
             LAMBDA a : a.activityId \in keep) :
     kinds \in [1..MaxActs -> {v \in StepsValues : v.kind = "list" => Len(v.items) = 1}],
     keep \in SUBSET ActivityIds}

UiSequencePayloads ==
  {p \in SequencePayloads :
     p.sequence.present =>
       \/ p.sequence.activities.kind = "list"
            /\ p.sequence.activities.decoded.items \in UiFreshLists
       \/ p.sequence.activities.kind = "string" /\ p.sequence.activities.text = "garbage"
       \/ p.sequence.activities.kind = "other"}

\* what the load makes of sequence.activities: JSON.parse throws, or the
\* value is an array or not
LoadedActivities(payload) ==
  IF payload.kind = "string"
    THEN LET parsed == JSONParse([text |-> payload.text, value |-> payload.decoded])
         IN  IF ~parsed.ok THEN [threw |-> TRUE, array |-> FALSE, list |-> <<>>]
             ELSE [threw |-> FALSE, array |-> parsed.value.kind = "list",
                   list |-> parsed.value.items]
  ELSE [threw |-> FALSE, array |-> payload.kind = "list", list |-> payload.decoded.items]

\* activities.map((act) => ({ activityId, activityType || "unknown", selected: false }))
LoadedItems(list) ==
  [k \in 1..Len(list) |->
     [activityId |-> list[k].activityId, activityType |-> "unknown", selected |-> FALSE]]

\* the await of getSequence in handleToggleSequence ends: the object seq is
\* changed in place and the state is set to the array newSequences, the
\* copy made at the click
ToggleSequenceLoaded ==
  /\ \E k \in 1..Len(ui.loads) :
       LET load == ui.loads[k]
           r == load.seq
           seq == ui.seqs[r]
           rest == [ui EXCEPT !.loads = SubSeq(@, 1, k - 1) \o SubSeq(@, k + 1, Len(@)),
                              !.list = load.arr,
                              !.last = [UiNoAction EXCEPT !.kind = "ToggleSequenceLoaded",
                                                          !.index = load.index,
                                                          !.pre = Content(ui, ui.list)]]
       IN  \E resp \in Responses(UiSequencePayloads) :
             LET seqData == GetSequence(seq.courseId, TitleToSlug(seq.sequenceTitle),
                                        "fr-FR", resp)
                 failed == [rest EXCEPT !.seqs[r].loading = FALSE]
                 opened == [rest EXCEPT !.seqs[r].loading = FALSE,
                                        !.seqs[r].expanded = TRUE]
             IN  \E u \in {IF seqData.raised THEN failed
                           ELSE IF ~seqData.value.sequence.present THEN opened
                           ELSE LET got == LoadedActivities(seqData.value.sequence.activities)
                                IN  IF got.threw THEN failed
                                    ELSE IF ~got.array THEN opened
                                    ELSE [opened EXCEPT
                                            !.seqs[r].activities = Len(ui.arrs) + 1,
                                            !.arrs = Append(@, LoadedItems(got.list))]} :
                   ui' = u /\ Shows(u)
  /\ UNCHANGED <<processing, error, result, hps, obs, api, submitVars, loadVars, pap>>

\* handleToggleActivity(seqIndex, actIndex): the activity object of the
\* current array is changed in place
HandleToggleActivity ==
  /\ ui.actions < MaxUiActions
  /\ \E seqIndex \in 1..Len(ui.list) :
       \E actIndex \in 1..Len(ui.arrs[ui.seqs[ui.list[seqIndex]].activities]) :
         \E u \in {[ui EXCEPT !.arrs[ui.seqs[ui.list[seqIndex]].activities][actIndex].selected
                                = ~@,
                              !.actions = @ + 1,
                              !.last = [UiNoAction EXCEPT !.kind = "handleToggleActivity",
                                                          !.index = seqIndex]]} :
           ui' = u /\ Shows(u)
  /\ UNCHANGED <<processing, error, result, hps, obs, api, submitVars, loadVars, pap>>

\* handleSelectAll: prev.map((seq) => ({ ...seq, selected: true })), new
\* sequence objects that share the arrays of activities
HandleSelectAll ==
  /\ ui.actions < MaxUiActions
  /\ LET n == Len(ui.list)
         first == Len(ui.seqs)
     IN  \E u \in {[ui EXCEPT !.seqs = @ \o [i \in 1..n |->
                                               [ui.seqs[ui.list[i]] EXCEPT !.selected = TRUE]],
                              !.list = [i \in 1..n |-> first + i],
                              !.actions = @ + 1,
                              !.last = [UiNoAction EXCEPT
                                          !.kind = "handleSelectAll",
                                          !.newly = {i \in 1..n :
                                                       /\ ~ui.seqs[ui.list[i]].selected
                                                       /\ ~ui.seqs[ui.list[i]].expanded}]]} :
           ui' = u /\ Shows(u)
  /\ UNCHANGED <<processing, error, result, hps, obs, api, submitVars, loadVars, pap>>

\* handleDeselectAll: new sequence objects and new activity objects
HandleDeselectAll ==
  /\ ui.actions < MaxUiActions
  /\ LET n == Len(ui.list)
         first == Len(ui.seqs)
         firstArr == Len(ui.arrs)
     IN  \E u \in {[ui EXCEPT !.seqs = @ \o [i \in 1..n |->
                                               [ui.seqs[ui.list[i]] EXCEPT
                                                  !.selected = FALSE,
                                                  !.activities = firstArr + i]],
                              !.arrs = @ \o [i \in 1..n |->
                                               Unselected(ui.arrs[ui.seqs[ui.list[i]].activities])],
                              !.list = [i \in 1..n |-> first + i],
                              !.actions = @ + 1,
                              !.last = [UiNoAction EXCEPT !.kind = "handleDeselectAll"]]} :
           ui' = u /\ Shows(u)
  /\ UNCHANGED <<processing, error, result, hps, obs, api, submitVars, loadVars, pap>>

(***************************************************************************)
(* handleProcessSelected over the objects.  The handler iterates the array *)
(* sequences of the render in which the button was clicked and reads       *)
(* seq.selected and seq.activities of its objects when the turn of each    *)
(* sequence comes; selectedActivities is taken before the first await of   *)
(* the sequence.  From there to the end of the iteration the handler       *)
(* reads its locals only, so that the awaits of one sequence are one step  *)
(* here (the batch with a step for each await is HandleProcessSelected     *)
(* above).  ui.batch.pc is "idle", "awaitSequence" (in the awaits of the   *)
(* sequence idx) or "done".  History: atStart is the content of the array  *)
(* at the click, turns the sequences fetched with the ids of the           *)
(* activities taken as selected, counted what became of each of them.      *)
(***************************************************************************)
UiWorld == [ui |-> ui, processing |-> processing, result |-> result]

UiBecomes(w0) ==
  \E w \in {w0} :
    /\ ui' = w.ui
    /\ processing' = w.processing
    /\ result' = w.result
    /\ Shows(w.ui)

IdsOf(acts) == [k \in 1..Len(acts) |-> acts[k].activityId]

CountAs(counted, as) == Len(SelectSeq(counted, LAMBDA c : c.as = as))

\* for (const seq of sequences), from its i-th element on
RECURSIVE UiSeqLoop(_, _)
UiSeqLoop(w0, i) ==
  Then(w0, LAMBDA w :
  IF i > Len(w.ui.batch.closure)
    THEN [w EXCEPT !.ui.batch.pc = "done", !.processing = FALSE,
                   !.result = Append(@, Line("summary", 0, 0, 0, w.ui.batch.successCount,
                                             w.ui.batch.errorCount))]
  ELSE LET seq == Deref(w.ui, w.ui.batch.closure[i])
       IN  IF ~seq.selected THEN UiSeqLoop(w, i + 1)
           ELSE IF Len(SelectedOf(seq)) = 0 THEN UiSeqLoop(w, i + 1)
           ELSE [w EXCEPT !.ui.batch.pc = "awaitSequence", !.ui.batch.idx = i,
                          !.ui.batch.selectedActivities = SelectedOf(seq),
                          !.ui.batch.turns =
                             Append(@, [index |-> i, ids |-> IdsOf(SelectedOf(seq))])])

\* the end of the iteration of a sequence: its line, its counts
UiSequenceEnds(w0, kind, steps, counted) ==
  Then(w0, LAMBDA w :
  UiSeqLoop([w EXCEPT !.ui.batch.successCount = @ + CountAs(counted, "success"),
                      !.ui.batch.errorCount = @ + CountAs(counted, "error"),
                      !.ui.batch.counted = @ \o counted,
                      !.result = Append(@, Line(kind, w.ui.batch.idx,
                                                IF kind = "ok" THEN steps ELSE 0,
                                                IF kind = "ok"
                                                  THEN Len(w.ui.batch.selectedActivities)
                                                  ELSE 0, 0, 0))],
            w.ui.batch.idx + 1))

\* errorCount += selectedActivities.length
AllFailed(b) ==
  [k \in 1..Len(b.selectedActivities) |->
     [seq |-> b.idx, activityId |-> b.selectedActivities[k].activityId, as |-> "error"]]

\* what the loop over selectedActivities can do from its k-th element on:
\* the steps counted and what became of each activity
RECURSIVE UiOutcomes(_, _, _)
UiOutcomes(b, fresh, k) ==
  IF k > Len(b.selectedActivities) THEN {[steps |-> 0, counted |-> <<>>]}
  ELSE LET id == b.selectedActivities[k].activityId
           found == Find(fresh, id)
           here == IF found = 0 THEN {[steps |-> 0, as |-> "miss"]}
                   ELSE IF fresh[found].steps.kind = "list"
                     THEN {[steps |-> n, as |-> "success"] :
                             n \in 0..Len(fresh[found].steps.items)}
                   ELSE {[steps |-> 1, as |-> "success"], [steps |-> 0, as |-> "error"]}
       IN  {[steps |-> h.steps + r.steps,
             counted |-> <<[seq |-> b.idx, activityId |-> id, as |-> h.as]>> \o r.counted] :
              h \in here, r \in UiOutcomes(b, fresh, k + 1)}

\* the click on the button, enabled when not processing and some activity
\* is selected
UiHandleProcessSelected ==
  /\ ui.batch.pc = "idle"
  /\ ~processing
  /\ \E i \in 1..Len(sequences) : Len(SelectedOf(sequences[i])) > 0
  /\ LET totalActivities == TotalSelected(sequences) IN
     IF totalActivities = 0
       THEN /\ error' = "Please select at least one activity in a sequence"
            /\ UNCHANGED <<sequences, processing, result, ui>>
       ELSE /\ UiBecomes(UiSeqLoop(
                 [UiWorld EXCEPT !.processing = TRUE,
                                 !.result = <<Line("processing", 0, 0, totalActivities, 0, 0)>>,
                                 !.ui.batch.closure = ui.list,
                                 !.ui.batch.atStart = sequences,
                                 !.ui.batch.totalActivities = totalActivities,
                                 !.ui.last = [UiNoAction EXCEPT !.kind = "handleProcessSelected"]],
                 1))
            /\ UNCHANGED error
  /\ UNCHANGED <<hps, obs, api, submitVars, loadVars, pap>>

\* the iteration of the sequence ends: getSequence has returned or raised
\* and the awaits of addProgressForActivity, if any, have ended, each by a
\* return or by a failure
UiSequenceSettled ==
  /\ ui.batch.pc = "awaitSequence"
  /\ \E resp \in Responses(UiSequencePayloads) :
       LET b == ui.batch
           seq == Deref(ui, b.closure[b.idx])
           seqData == GetSequence(seq.courseId, TitleToSlug(seq.sequenceTitle), "fr-FR", resp)
           w == [UiWorld EXCEPT !.ui.last = [UiNoAction EXCEPT !.kind = "UiSequenceSettled"]]
       IN  IF seqData.raised THEN UiBecomes(UiSequenceEnds(w, "error", 0, AllFailed(b)))
           ELSE IF ~seqData.value.sequence.present
             THEN UiBecomes(UiSequenceEnds(w, "nodata", 0, AllFailed(b)))
           ELSE LET got == LoadedActivities(seqData.value.sequence.activities)
                    fresh == IF got.array THEN got.list ELSE <<>>
                IN  IF got.threw THEN UiBecomes(UiSequenceEnds(w, "error", 0, AllFailed(b)))
                    ELSE \E o \in UiOutcomes(b, fresh, 1) :
                           UiBecomes(UiSequenceEnds(w, "ok", o.steps, o.counted))
  /\ UNCHANGED <<error, hps, obs, api, submitVars, loadVars, pap>>

(***************************************************************************)
(* Specifications.  Spec: one batch of handleProcessSelected over a list   *)
(* as loading and selecting can leave it.  SpecAPI: calls on the remote    *)
(* query layer, from the component's initial state.  SpecSubmit: up to     *)
(* MaxSubmits submissions one after the other.                             *)
(***************************************************************************)
Init ==
  /\ \E n \in 1..MaxSeqs : sequences \in SequenceListsOfLen(n)
  /\ processing = FALSE
  /\ error = ""
  /\ result = <<>>
  /\ hps = HpsIdle
  /\ obs = ObsIdle
  /\ api = ApiIdle
  /\ uuids = 0
  /\ sent = <<>>
  /\ loading = FALSE
  /\ reported = <<>>
  /\ hls = HlsIdle
  /\ pap = PapIdle
  /\ ui = UiIdle

Next ==
  \/ HandleProcessSelected
  \/ GetSequenceReturns
  \/ AddProgressReturns
  \/ NextIteration

Spec == Init /\ [][Next]_vars

InitAPI ==
  /\ sequences = <<>>
  /\ processing = FALSE
  /\ error = ""
  /\ result = <<>>
  /\ hps = HpsIdle
  /\ obs = ObsIdle
  /\ api = ApiIdle
  /\ uuids = 0
  /\ sent = <<>>
  /\ loading = FALSE
  /\ reported = <<>>
  /\ hls = HlsIdle
  /\ pap = PapIdle
  /\ ui = UiIdle

NextAPI ==
  \/ CallGetCoursesAndProgress
  \/ CallGetSequence
  \/ CallAddProgressForActivity

\* Every await of a batch ends: each network operation returns or fails, and
\* the continuation of the handler is then run.
SpecLive == Init /\ [][Next]_vars /\ WF_vars(Next)

SpecAPI == InitAPI /\ [][NextAPI]_vars

NextSubmit ==
  \/ Submit
  \/ CallCreateProgressRequest

SpecSubmit == InitAPI /\ [][NextSubmit]_vars

\* one call of generateUUID
NextUUID == CallGenerateUUID

SpecUUID == InitAPI /\ [][NextUUID]_vars

\* titleToSlug on a title, then on its slug
NextSlug ==
  \/ CallTitleToSlug
  \/ CallTitleToSlugOnSlug

SpecSlug == InitAPI /\ [][NextSlug]_vars

\* the operator's actions on a list of MaxSeqs sequences, with the loads
\* and the batch they start
InitUI ==
  /\ sequences \in UiListsOfLen(MaxSeqs)
  /\ processing = FALSE
  /\ error = ""
  /\ result = <<>>
  /\ hps = HpsIdle
  /\ obs = ObsIdle
  /\ api = ApiIdle
  /\ uuids = 0
  /\ sent = <<>>
  /\ loading = FALSE
  /\ reported = <<>>
  /\ hls = HlsIdle
  /\ pap = PapIdle
  /\ ui = [UiIdle EXCEPT  \* object i and array i for the i-th item
            !.list = [i \in 1..Len(sequences) |-> i],
            !.seqs = [i \in 1..Len(sequences) |-> [sequences[i] EXCEPT !.activities = i]],
            !.arrs = [i \in 1..Len(sequences) |-> sequences[i].activities]]

NextUI ==
  \/ HandleToggleSequence
  \/ ToggleSequenceLoaded
  \/ HandleToggleActivity
  \/ HandleSelectAll
  \/ HandleDeselectAll
  \/ UiHandleProcessSelected
  \/ UiSequenceSettled

SpecUI == InitUI /\ [][NextUI]_vars

\* processAllProgress once, or up to MaxLoads loads, from the component's
\* state after construction
NextCourses ==
  \/ ProcessAllProgress
  \/ PapCoursesReturn
  \/ PapSequenceReturns
  \/ PapSubmissionReturns
  \/ PapNextSequence
  \/ HandleLoadSequences
  \/ LoadCoursesReturn

SpecCourses == InitAPI /\ [][NextCourses]_vars

\* the two batch functions: handleProcessSelected over a list, or
\* processAllProgress
NextBatches ==
  \/ HandleProcessSelected
  \/ GetSequenceReturns
  \/ AddProgressReturns
  \/ NextIteration
  \/ ProcessAllProgress
  \/ PapCoursesReturn
  \/ PapSequenceReturns
  \/ PapSubmissionReturns
  \/ PapNextSequence

\* a list as loading and selecting can leave it, or the state after
\* construction
InitBatches ==
  \/ Init
  \/ InitAPI

SpecBatches == InitBatches /\ [][NextBatches]_vars

(***************************************************************************)
(* Properties.                                                             *)
(***************************************************************************)
SelectedCount(i) ==
  Cardinality({k \in 1..Len(sequences[i].activities) : sequences[i].activities[k].selected})

\* a sequence the batch has to process: selected, with a selected activity
Eligible(i) == sequences[i].selected /\ SelectedCount(i) > 0

Occurrences(log, x) == Cardinality({n \in 1..Len(log) : log[n] = x})

LastLine == result[Len(result)]

Returned(log) == {n \in 1..Len(log) : log[n].outcome = "returned"}
Raised(log) == {n \in 1..Len(log) : log[n].outcome = "raised"}

\* C1: when no selected sequence has a selected activity, handleProcessSelected
\* issues no getSequence and no addProgressForActivity, sets the validation
\* message, leaves the processing flag false and returns.
ThmC1 ==
  (\A i \in 1..Len(sequences) : ~Eligible(i)) =>
    /\ ~processing
    /\ obs.fetchLog = <<>>
    /\ obs.subLog = <<>>
    /\ hps.pc # "idle" =>
         /\ hps.pc = "done"
         /\ error = "Please select at least one activity in a sequence"
         /\ result = <<>>

WitC1 ==
  /\ \A i \in 1..Len(sequences) : ~Eligible(i)
  /\ \E i \in 1..Len(sequences) : SelectedCount(i) > 0
  /\ hps.pc = "done"
  /\ error # ""

AddArgsNonEmpty == \A i \in 1..4 : api.args[i] # ""

DirectPosted(r) == \E i \in 1..Len(r.requests) : r.requests[i].via = "direct"
PagePosted(r) == \E i \in 1..Len(r.requests) : r.requests[i].via = "page"

\* the replay path gives no result: nothing stored, a stored request without
\* body, or an exception (storage read, body parse, use of a parsed body that
\* is no object, tab lookup, in-page execution)
ReplayGaveNoResult(env) ==
  IF env.store.kind # "req" THEN TRUE
  ELSE IF env.store.body.text # "json" THEN TRUE
  ELSE IF env.store.body.value.kind # "obj" \/ env.store.body.value.variables = "prim" THEN TRUE
  ELSE env.tab = "throws" \/ env.exec.kind = "throws"

DirectFailed(resp) ==
  resp.kind = "reject" \/ ~ResOk(resp.status) \/ ~resp.json \/ resp.errors # "absent"

\* C2: addProgressForActivity with four non-empty identifiers issues the
\* direct POST exactly when the replay path gave no result, and raises only
\* when the direct POST was issued and failed.
ThmC2 ==
  (api.op = "addProgressForActivity" /\ AddArgsNonEmpty) =>
    /\ DirectPosted(api.result) <=> ReplayGaveNoResult(api.env)
    /\ api.result.raised => (DirectPosted(api.result) /\ DirectFailed(api.env.direct))

WitC2 ==
  /\ api.op = "addProgressForActivity"
  /\ AddArgsNonEmpty
  /\ api.env.store.kind = "req"
  /\ api.env.store.body.text = "json"
  /\ api.env.tab = "ok"
  /\ api.env.exec.kind = "throws"
  /\ PagePosted(api.result)
  /\ DirectPosted(api.result)
  /\ ~api.result.raised

\* the call got an answer of the remote service that is a failure: a status
\* that is not 2xx or a body with an errors array
FailureReceived ==
  \/ /\ DirectPosted(api.result)
     /\ RemoteFailure(api.env.direct)
  \/ /\ api.op = "addProgressForActivity"
     /\ PagePosted(api.result)
     /\ api.env.exec.kind = "result"
     /\ ~ResOk(api.env.exec.status) \/ (api.env.exec.json /\ api.env.exec.errors # "absent")

\* C3: every operation against the endpoint raises when the answer of the
\* remote service has a status that is not 2xx or carries an errors array.
CexC3 == (api.op # "none" /\ FailureReceived) => api.result.raised

\* C4: when the getSequence of a sequence raises or returns no sequence data,
\* the error counter grows by the number of activities selected in that
\* sequence, the success counter is unchanged and no submission is issued.
ThmC4 ==
  (hps.pc = "seqEnd" /\ obs.fetch \in {"raised", "nodata"}) =>
    /\ hps.errorCount = obs.base.error + SelectedCount(hps.seqIdx)
    /\ hps.successCount = obs.base.success
    /\ obs.subLog = <<>>

WitC4 ==
  /\ hps.pc = "seqEnd"
  /\ obs.fetch \in {"raised", "nodata"}
  /\ SelectedCount(hps.seqIdx) >= 2
  /\ Len(sequences[hps.seqIdx].activities) > SelectedCount(hps.seqIdx) \/ hps.seqIdx > 1

\* C5: whatever fails, every selected sequence with a selected activity that
\* the loop has reached has had exactly one getSequence call, all of them
\* once the batch is done, and no other sequence has had one.
ThmC5 ==
  \A i \in 1..Len(sequences) :
    Occurrences(obs.fetchLog, i) =
      IF /\ Eligible(i)
         /\ hps.pc # "idle"
         /\ i <= hps.seqIdx \/ hps.pc = "done"
        THEN 1 ELSE 0

WitC5 ==
  /\ hps.pc = "done"
  /\ obs.fetchLog = <<1, 2>>
  /\ \E n \in 1..Len(result) : result[n].kind \in {"error", "nodata"} /\ result[n].seq = 1

\* C6: a selected activity found in the fresh list with N >= 1 steps adds
\* exactly 1 to the success counter and nothing to the error counter,
\* whichever of its step submissions fail.
ThmC6 ==
  \A n \in 1..Len(obs.actLog) :
    LET e == obs.actLog[n] IN
    (e.found /\ e.stepsKind = "list" /\ e.nSteps >= 1) => (e.dSuccess = 1 /\ e.dError = 0)

WitC6 ==
  \E n \in 1..Len(obs.actLog) :
    LET e == obs.actLog[n] IN
    /\ e.found /\ e.stepsKind = "list" /\ e.nSteps = 2
    /\ Len(e.calls) = 2
    /\ \A c \in 1..Len(e.calls) : e.calls[c].outcome = "raised"

ThmC8 ==
  /\ \A n \in 1..Len(obs.actLog) :
       LET e == obs.actLog[n] IN
       (e.found /\ e.stepsKind = "list") =>
         LET steps == hps.activities[Find(hps.activities, e.activityId)].steps.items IN
         /\ Len(e.calls) = Len(steps)
         /\ \A j \in 1..Len(steps) :
              /\ e.calls[j].call.activityStepId = steps[j].activityStepId
              /\ e.calls[j].call.activityId = e.activityId
              /\ e.calls[j].call.score = 1
              /\ e.calls[j].call.sequenceId = hps.sequenceId
              /\ e.calls[j].call.courseId = sequences[hps.seqIdx].courseId
  /\ hps.pc = "awaitStep" =>
       /\ Len(obs.subLog) - obs.actBase.calls = hps.stepIdx
       /\ hps.call.activityStepId =
            hps.activities[hps.found].steps.items[hps.stepIdx].activityStepId

WitC8 ==
  \E n \in 1..Len(obs.actLog) :
    LET e == obs.actLog[n] IN
    /\ e.found /\ e.stepsKind = "list" /\ e.nSteps = 2
    /\ Len(e.calls) = 2
    /\ e.calls[1].outcome = "raised"
    /\ e.calls[2].call.activityStepId # e.calls[1].call.activityStepId

\* C9: a selected activity found in the fresh list with zero steps (steps
\* absent or an empty list) gets exactly one submission, with its id as
\* activityId and as activityStepId; the success counter grows by 1 if it
\* returns, the error counter by 1 if it raises.
CexC9 ==
  \A n \in 1..Len(obs.actLog) :
    LET e == obs.actLog[n] IN
    (e.found /\ e.nSteps = 0) =>
      /\ Len(e.calls) = 1
      /\ e.calls[1].call.activityId = e.activityId
      /\ e.calls[1].call.activityStepId = e.activityId
      /\ e.calls[1].outcome = "returned" => (e.dSuccess = 1 /\ e.dError = 0)
      /\ e.calls[1].outcome = "raised" => (e.dSuccess = 0 /\ e.dError = 1)

\* C10: a fetched sequence whose activities field is the text "[]", a text
\* that is no JSON, or a value that decodes to no list is handled as an
\* empty list: no submission, no error line, nothing added to the error
\* counter.
CexC10 ==
  (hps.pc = "seqEnd" /\ obs.fetch = "returned"
     /\ obs.payload \in {"[]", "unparsable", "nonlist"}) =>
    /\ obs.subLog = <<>>
    /\ LastLine.kind = "ok"
    /\ hps.errorCount = obs.base.error

\* C11: a selected activity whose id does not occur in the fresh list of its
\* sequence is skipped: no submission is issued for it, and the success
\* counter, the error counter and the step count stay as they were.
ThmC11 ==
  \A n \in 1..Len(obs.actLog) :
    LET e == obs.actLog[n] IN
    ~e.found =>
      /\ \A m \in 1..Len(hps.activities) : hps.activities[m].activityId # e.activityId
      /\ e.calls = <<>>
      /\ e.dSuccess = 0 /\ e.dError = 0 /\ e.dSteps = 0

WitC11 ==
  /\ hps.pc = "seqEnd"
  /\ Len(obs.actLog) = 2
  /\ ~obs.actLog[1].found
  /\ obs.actLog[2].found
  /\ obs.actLog[2].calls # <<>>
  /\ hps.successCount = 1
  /\ hps.errorCount = 0

\* the fields the replay path sets anew in every captured message
TargetFields == {"courseId", "sequenceId", "activityId", "activityStepId", "score"}
RegeneratedFields == {"activityAttemptId", "activityStepAttemptId", "endTimestamp"}

\* the call in api replayed a captured request with a non-empty message list
Replayed ==
  /\ api.op = "addProgressForActivity"
  /\ SnapshotSize(api) > 0
  /\ PagePosted(api.result)

ReplayedRequest == CHOOSE r \in {api.result.requests[i] : i \in 1..Len(api.result.requests)} :
                     r.via = "page"

\* the replayed request against the captured one: as many messages, each
\* with the target's five values, the fields outside `changed` as captured,
\* and the url, method and headers of the captured request
ReplayFrame(changed) ==
  LET old == api.env.store.body.value.messages.items
      new == ReplayedRequest.body.value.messages.items
  IN  /\ Len(new) = Len(old)
      /\ \A i \in 1..Len(new) :
           /\ new[i].courseId = api.args[1]
           /\ new[i].sequenceId = api.args[2]
           /\ new[i].activityId = api.args[3]
           /\ new[i].activityStepId = api.args[4]
           /\ new[i].score = api.args[5]
           /\ DOMAIN new[i] = DOMAIN old[i]
           /\ \A f \in DOMAIN old[i] \ changed : new[i][f] = old[i][f]
      /\ ReplayedRequest.url = api.env.store.url
      /\ ReplayedRequest.method = api.env.store.method
      /\ ReplayedRequest.headers = api.env.store.headers

\* C12 as claimed: the replayed request has as many messages as the captured
\* one, every message carries the target's courseId, sequenceId, activityId,
\* activityStepId and score, and every other field of every captured message
\* and the url, method and headers are unchanged.
CexC12 == Replayed => ReplayFrame(TargetFields)

\* C12, amended: as claimed, for every field of a captured message other
\* than the five of the target and the activityAttemptId,
\* activityStepAttemptId and endTimestamp, which are set anew; for whatever
\* snapshot each submission reads.
ThmC12 == Replayed => ReplayFrame(TargetFields \cup RegeneratedFields)

WitC12 ==
  /\ Replayed
  /\ Len(sent) = 1
  /\ sent[1].snapshot = 1
  /\ api.env.store.body.value.messages.items = <<CapturedSkipMsg, CapturedMsg>>
  /\ ~api.result.raised

\* C15: getCoursesAndProgress with an empty locale, getSequence with an empty
\* courseId, sequenceSlug or locale, and addProgressForActivity with an empty
\* courseId, sequenceId, activityId or activityStepId raise a validation
\* error before any storage read and any network request.
ThmC15 ==
  /\ (api.op = "getCoursesAndProgress" /\ api.args[1] = "") =>
       /\ api.result.raised
       /\ api.result.error = "locale is required"
       /\ api.result.requests = <<>>
  /\ (api.op = "getSequence" /\ (api.args[1] = "" \/ api.args[2] = <<>> \/ api.args[3] = "")) =>
       /\ api.result.raised
       /\ api.result.error = "courseId, sequenceSlug, and locale are required"
       /\ api.result.requests = <<>>
  /\ (api.op = "addProgressForActivity" /\ ~AddArgsNonEmpty) =>
       /\ api.result.raised
       /\ api.result.error = "courseId, sequenceId, activityId, and activityStepId are required"
       /\ api.result.requests = <<>>

WitC15 ==
  /\ api.op = "addProgressForActivity"
  /\ api.args[1] # "" /\ api.args[2] # "" /\ api.args[3] # "" /\ api.args[4] = ""
  /\ api.env.store.kind = "req"
  /\ api.env.store.body.text = "json"
  /\ api.env.exec.kind = "result"
  /\ api.result.raised

\* C18: every message produced by a submission (replayed captured messages,
\* the replayed message built from scratch, the message of the direct POST)
\* and by createProgressRequest carries an activityAttemptId and an
\* activityStepAttemptId drawn by calls of the generator made during that
\* submission, one call per id: none comes from the captured request, none
\* is shared by two messages or by the two ids of a message, and none was
\* carried by a message of an earlier submission.
ThmC18 ==
  LET msgs == ProducedMessages(ProducedRequests(api))
      ids == AttemptIds(msgs)
  IN  api.op # "none" =>
        /\ ids \subseteq {UUID(n) : n \in (uuids - api.result.uuids + 1)..uuids}
        /\ Cardinality(ids) = 2 * Len(msgs)
        /\ \A k \in 1..Len(sent) : ids \cap sent[k].ids = {}

WitC18 ==
  /\ api.op = "addProgressForActivity"
  /\ SnapshotSize(api) = 2
  /\ PagePosted(api.result)
  /\ DirectPosted(api.result)
  /\ Len(sent) = 1
  /\ sent[1].ids # {}

\* the entries of the activity log that have a submission
Submitted == SelectSeq(obs.actLog, LAMBDA e : e.calls # <<>>)

\* the sequences are fetched in the order of the list
SequencesInListOrder ==
  \A n, m \in 1..Len(obs.fetchLog) : n < m => obs.fetchLog[n] < obs.fetchLog[m]

\* the steps of an activity are submitted in the order of its step list
StepsInServerOrder ==
  \A n \in 1..Len(Submitted) :
    LET e == Submitted[n]
        steps == hps.activities[Find(hps.activities, e.activityId)].steps.items
    IN  e.stepsKind = "list" =>
          \A j \in 1..Len(e.calls) : e.calls[j].call.activityStepId = steps[j].activityStepId

\* C16 as claimed: sequences are processed in the order of the list, the
\* selected activities of a sequence are submitted in the order in which
\* they appear in the freshly fetched activity list, and the steps of an
\* activity in the order returned by the server.
CexC16 ==
  /\ SequencesInListOrder
  /\ \A n, m \in 1..Len(Submitted) :
       n < m => Find(hps.activities, Submitted[n].activityId)
                  < Find(hps.activities, Submitted[m].activityId)
  /\ StepsInServerOrder

\* C16, amended: sequences are processed in the order of the list, the
\* selected activities of a sequence are handled, and those found in the
\* fresh list submitted, in the order in which they appear in the activity
\* list of the operator's sequence item, and the steps of an activity in
\* the order returned by the server.
ThmC16 ==
  /\ SequencesInListOrder
  /\ hps.pc \in {"awaitStep", "awaitActivity", "seqEnd"} =>
       LET shown == sequences[hps.seqIdx].activities
           chosen == SelectSeq(shown, LAMBDA a : a.selected)
       IN  /\ Len(obs.actLog) <= Len(chosen)
           /\ \A n \in 1..Len(obs.actLog) : obs.actLog[n].activityId = chosen[n].activityId
           /\ hps.pc # "seqEnd" =>
                hps.call.activityId = chosen[Len(obs.actLog) + 1].activityId
           /\ (hps.pc = "seqEnd" /\ obs.fetch = "returned" /\ LastLine.kind = "ok") =>
                Len(obs.actLog) = Len(chosen)
  /\ StepsInServerOrder

WitC16 ==
  /\ hps.pc = "seqEnd"
  /\ obs.fetchLog = <<1, 2>>
  /\ Len(Submitted) = 2
  /\ Submitted[1].activityId = "a1"
  /\ Submitted[2].activityId = "a2"
  /\ Find(hps.activities, "a2") < Find(hps.activities, "a1")
  /\ Submitted[1].nSteps = 2

\* a batch of handleProcessSelected is under way
Running == hps.pc \in {"awaitSequence", "awaitStep", "awaitActivity", "seqEnd"}

Completed ==
  /\ hps.pc = "done"
  /\ ~processing
  /\ result # <<>>
  /\ LastLine.kind = "summary"

\* C19: a batch started with at least one selected activity runs to
\* completion, whatever sequence fetches and submissions fail: the
\* processing flag is set exactly while the batch is under way, a batch is
\* under way only with a selected activity, a batch that has ended has
\* appended the summary line and reset the flag, and no batch stays under
\* way for ever (a batch under way can only go on or end, so it ends).
ThmC19 ==
  /\ [](processing <=> Running)
  /\ [](Running => TotalSelected(sequences) > 0)
  /\ [](hps.pc = "done" => (Completed \/ TotalSelected(sequences) = 0))
  /\ []<>(~Running)

WitC19 ==
  /\ Completed
  /\ Len(sequences) = 2
  /\ hps.errorCount > 0
  /\ hps.successCount > 0
  /\ \E n \in 1..Len(result) : result[n].kind = "error"

(***************************************************************************)
(* processAllProgress: what is attempted.                                  *)
(***************************************************************************)
\* the step ids submitted for an activity: its steps, or its own id when it
\* has none
StepIdsOf(activity) ==
  IF activity.steps.kind = "list" /\ Len(activity.steps.items) > 0
    THEN [j \in 1..Len(activity.steps.items) |-> activity.steps.items[j].activityStepId]
    ELSE <<activity.activityId>>

\* one attempt <<activityId, activityStepId>> for every step of every activity
RECURSIVE AllAttempts(_)
AllAttempts(activities) ==
  IF activities = <<>> THEN <<>>
  ELSE [j \in 1..Len(StepIdsOf(Head(activities))) |->
          <<Head(activities).activityId, StepIdsOf(Head(activities))[j]>>]
       \o AllAttempts(Tail(activities))

\* the attempts made for the current sequence
PapAttempted ==
  [n \in 1..Len(pap.subLog) |->
     <<pap.subLog[n].call.activityId, pap.subLog[n].call.activityStepId>>]

\* <<c, s>> for every sequence s of every course c, from course c on
RECURSIVE SequencesFrom(_, _)
SequencesFrom(courses, c) ==
  IF c > Len(courses) THEN <<>>
  ELSE (IF courses[c].sequences.kind = "list"
          THEN [s \in 1..Len(courses[c].sequences.items) |-> <<c, s>>]
          ELSE <<>>)
       \o SequencesFrom(courses, c + 1)

\* at the end of the iteration for a sequence whose activities were
\* received, every step of every activity has been attempted
EveryStepAttempted ==
  (pap.pc = "seqEnd" /\ pap.fetch = "returned")
    => PapAttempted = AllAttempts(pap.activities)

\* a run that returns has fetched every sequence of every course, in order
EverySequenceFetched ==
  pap.pc = "returned" => pap.fetchLog = SequencesFrom(pap.courses, 1)

\* a run ends early only on the course fetch
OnlyCourseFetchEndsRun ==
  pap.pc = "raised" => (pap.coursesFetch \in {"raised", "nocourses"} /\ pap.fetchLog = <<>>)

\* C13: processAllProgress attempts one submission for every step of every
\* activity (one for an activity without steps) of every sequence of every
\* assigned course, whatever step, activity or sequence fetch fails; only a
\* failure of the course fetch ends the run early.
CexC13 ==
  /\ EveryStepAttempted
  /\ EverySequenceFetched
  /\ OnlyCourseFetchEndsRun

\* C14: when getCoursesAndProgress raises, processAllProgress ends by raising
\* the same error, having issued no sequence fetch and no submission, and
\* handleLoadSequences passes the error to onError, leaves the list as it
\* was at the click and resets the loading flag.
ThmC14 ==
  /\ pap.coursesFetch = "raised" =>
       /\ pap.pc = "raised"
       /\ pap.error = pap.fetchError
       /\ pap.fetchLog = <<>>
       /\ pap.subLog = <<>>
  /\ hls.outcome = "raised" =>
       /\ hls.pc = "idle"
       /\ sequences = hls.prev
       /\ ~loading
       /\ reported # <<>>
       /\ reported[Len(reported)] = hls.failure
       /\ error = hls.failure

WitC14 ==
  /\ pap.pc = "raised"
  /\ pap.coursesFetch = "raised"
  /\ pap.fetchError = "http"
  /\ hls.outcome = "raised"
  /\ hls.failure = "network"
  /\ Len(hls.prev) = 2
  /\ reported = <<"network">>

(***************************************************************************)
(* handleLoadSequences: the list it builds.                                *)
(***************************************************************************)
\* the number of sequences of a course (none when course.sequences is missing)
SequenceCount(course) ==
  IF course.sequences.kind = "list" THEN Len(course.sequences.items) ELSE 0

\* the number of sequences of the first c courses
RECURSIVE SequencesBefore(_, _)
SequencesBefore(courses, c) ==
  IF c = 0 THEN 0
  ELSE SequencesBefore(courses, c - 1) + SequenceCount(courses[c])

\* C20: after a load that received the course list, the list holds exactly
\* one item per sequence of each course, in course order then sequence
\* order, with the course id and title, the sequence id and title,
\* selected, expanded and loading false, and no activities; a course
\* without sequences gives no item.
ThmC20 ==
  hls.outcome = "loaded" =>
    /\ Len(sequences) = SequencesBefore(hls.courses, Len(hls.courses))
    /\ \A c \in 1..Len(hls.courses) : \A s \in 1..SequenceCount(hls.courses[c]) :
         LET item == sequences[SequencesBefore(hls.courses, c - 1) + s]
             course == hls.courses[c]
             seq == course.sequences.items[s]
         IN  /\ item.courseId = course.courseId
             /\ item.courseName = course.title
             /\ item.sequenceId = seq.id
             /\ item.sequenceTitle = seq.title
             /\ item.selected = FALSE
             /\ item.expanded = FALSE
             /\ item.loading = FALSE
             /\ item.activities = <<>>
    /\ result = <<Line("loaded", Len(sequences), 0, 0, 0, 0)>>

WitC20 ==
  /\ hls.outcome = "loaded"
  /\ Len(hls.courses) = 2
  /\ SequenceCount(hls.courses[1]) = 2
  /\ SequenceCount(hls.courses[2]) = 1
  /\ Len(sequences) = 3
  /\ sequences[3].courseId = "c2"
  /\ hls.loads = 2
  /\ hls.prev = <<>>

(***************************************************************************)
(* Network operations outstanding within a batch invocation.               *)
(***************************************************************************)
\* the number of entries of a log of calls that have not returned or raised
Pending(log) == Cardinality({n \in 1..Len(log) : log[n].outcome = "pending"})

\* operations handleProcessSelected has started and not seen the end of
HpsOutstanding ==
  (IF obs.fetch = "pending" THEN 1 ELSE 0) + Pending(obs.subLog)

\* operations processAllProgress has started and not seen the end of
PapOutstanding ==
  (IF pap.coursesFetch = "pending" THEN 1 ELSE 0)
  + (IF pap.fetch = "pending" THEN 1 ELSE 0)
  + Pending(pap.subLog)

\* C17: within one invocation of handleProcessSelected or of
\* processAllProgress at most one network operation (course or sequence
\* fetch, submission) is outstanding at any time, and none when the
\* invocation is not waiting.
ThmC17 ==
  /\ HpsOutstanding = (IF hps.pc \in {"awaitSequence", "awaitStep", "awaitActivity"} THEN 1 ELSE 0)
  /\ PapOutstanding = (IF pap.pc \in {"awaitCourses", "awaitSequence", "awaitStep",
                                       "awaitActivity"} THEN 1 ELSE 0)

\* the second submission of a sequence is outstanding after the first one
\* has raised
WitC17 ==
  /\ pap.pc = "awaitStep"
  /\ Len(pap.subLog) = 2
  /\ pap.subLog[1].outcome = "raised"
  /\ pap.subLog[2].outcome = "pending"
  /\ pap.fetch = "returned"
  /\ Len(pap.fetchLog) = 2

(***************************************************************************)
(* titleToSlug applied twice.                                              *)
(***************************************************************************)
\* C21: titleToSlug is idempotent: applied to the slug of any title it
\* returns that slug.
ThmC21 ==
  api.op = "titleToSlug(titleToSlug)" => api.result.value = api.args[2]

WitC21 ==
  /\ api.op = "titleToSlug(titleToSlug)"
  /\ api.args[1] = <<"_", "E'", " ", "S">>
  /\ api.args[2] = <<"e", "-", "s">>
  /\ api.result.value = <<"e", "-", "s">>

(***************************************************************************)
(* The layout of an attempt id.                                            *)
(***************************************************************************)
LowerHex == {HexDigits[i] : i \in 1..Len(HexDigits)}

\* C22: whatever is drawn, generateUUID returns 36 characters, lower-case
\* hex digits in groups of 8-4-4-4-12 separated by hyphens, the first
\* character of the third group being 4 and the first of the fourth group
\* one of 8, 9, a, b.
ThmC22 ==
  api.op = "generateUUID" =>
    LET u == api.result.value IN
    /\ Len(u) = 36
    /\ \A i \in 1..36 :
         IF i \in {9, 14, 19, 24} THEN u[i] = "-"
         ELSE IF i = 15 THEN u[i] = "4"
         ELSE IF i = 20 THEN u[i] \in {"8", "9", "a", "b"}
         ELSE u[i] \in LowerHex

WitC22 ==
  /\ api.op = "generateUUID"
  /\ api.result.value[1] = "f"
  /\ api.result.value[2] = "3"
  /\ api.result.value[19] = "-"
  /\ api.result.value[20] = "b"
  /\ api.result.value[36] = "7"

(***************************************************************************)
(* The selection tree under the operator's actions.                        *)
(***************************************************************************)
\* C23: whenever a sequence goes from unselected to selected while it is
\* not expanded, a getSequence load of that sequence is started, by the
\* toggle of the sequence as by Select All.
CexC23 == ui.last.newly \subseteq ui.last.triggered

\* a sequence item without the fields that a load sets
BesidesLoad(item) == [item EXCEPT !.activities = <<>>, !.expanded = FALSE, !.loading = FALSE]

\* C27: the end of a load changes only the activities, expanded and loading
\* fields of the loaded sequence: what the operator did while the load was
\* in flight (Select All, Deselect All, toggle of another sequence or of an
\* activity) is still in the state, no selected flag is reverted.
CexC27 ==
  ui.last.kind = "ToggleSequenceLoaded" =>
    /\ Len(sequences) = Len(ui.last.pre)
    /\ \A i \in 1..Len(sequences) :
         IF i = ui.last.index
           THEN BesidesLoad(sequences[i]) = BesidesLoad(ui.last.pre[i])
           ELSE sequences[i] = ui.last.pre[i]

\* the indices of the sequences that a batch over items has to process
EligibleIn(items) ==
  SelectSeq([i \in 1..Len(items) |-> i],
            LAMBDA i : items[i].selected /\ Len(SelectedOf(items[i])) > 0)

\* C26: a running batch processes the selection as it was when it started:
\* the sequences it fetches are the selected sequences of that moment with
\* a selected activity, in order, and the activities it takes for each are
\* those selected at that moment, whatever the operator does meanwhile.
CexC26 ==
  LET b == ui.batch
      e == EligibleIn(b.atStart)
  IN  /\ Len(b.turns) <= Len(e)
      /\ \A n \in 1..Len(b.turns) :
           n <= Len(e) =>
             /\ b.turns[n].index = e[n]
             /\ b.turns[n].ids = IdsOf(SelectedOf(b.atStart[e[n]]))
      /\ b.pc = "done" => Len(b.turns) = Len(e)

\* C25: when a batch completes, successCount + errorCount is at most the
\* number of selected activities counted at its start, and is that number
\* minus the activities skipped as misses; no activity is counted twice.
CexC25 ==
  ui.batch.pc = "done" =>
    LET b == ui.batch
    IN  /\ b.successCount + b.errorCount <= b.totalActivities
        /\ b.successCount + b.errorCount = b.totalActivities - CountAs(b.counted, "miss")
        /\ \A m, n \in 1..Len(b.counted) :
             (b.counted[m].seq = b.counted[n].seq
                /\ b.counted[m].activityId = b.counted[n].activityId) => m = n

(***************************************************************************)
(* The report of a batch.                                                  *)
(***************************************************************************)
\* C24: when a batch completes, the report holds, after its first line
\* ("Processing N activities..."), exactly one line for each selected
\* sequence with a selected activity, in the order of processing, and then
\* one summary line whose succeeded and failed numbers are the final
\* successCount and errorCount.
ThmC24 ==
  (hps.pc = "done" /\ TotalSelected(sequences) > 0) =>
    LET e == EligibleIn(sequences)
    IN  /\ Len(result) = Len(e) + 2
        /\ result[1].kind = "processing"
        /\ \A n \in 1..Len(e) :
             /\ result[n + 1].kind \in {"ok", "error", "nodata"}
             /\ result[n + 1].seq = e[n]
        /\ result[Len(result)].kind = "summary"
        /\ result[Len(result)].succeeded = hps.successCount
        /\ result[Len(result)].failed = hps.errorCount

\* a completed batch of two sequences, the first one failed and the second
\* one processed, with successes and failures in the summary
WitC24 ==
  /\ hps.pc = "done"
  /\ Len(result) = 4
  /\ result[2].kind = "error" /\ result[2].seq = 1
  /\ result[3].kind = "ok" /\ result[3].seq = 2
  /\ result[4].kind = "summary" /\ result[4].succeeded = 1 /\ result[4].failed = 2

====
